---- MODULE Spec2Model ----
\* A model of the luxury-travel-agent server: the deal-scoring and
\* normalisation layer of the flight, hotel and restaurant widgets, the
\* HTTP search routes, the WhatsApp webhook receiver and the WhatsApp sender.
\*
\* A handler keeps nothing of a request once it is answered, so the state of
\* a request is which operation ran (op), what it was given (req) and what
\* it answered (resp).  Every handler is one action, taken when the server
\* is idle; Done delivers the response.  The token cache of the provider
\* client is the one thing that outlives a request; it has a specification
\* of its own, TokenSpec, in which search calls interleave at their awaits.
\*
\* Conventions
\*   None / Some(v)   Python's Optional: <<>> is None, <<v>> is a value.
\*   Strings that the code inspects character by character (hotel names,
\*   button ids) are sequences of one-character strings.
\*   Money is in whole dollars; the provider totals used as inputs are chosen
\*   so that the code's float products (x1.35, x1.25) are whole numbers.
\*   Ratings are in tenths (49 is 4.9).
EXTENDS Integers, Sequences, FiniteSets, TLC

VARIABLES op, req, resp

\* The one provider client of a widget lives across requests: the clock
\* (seconds), the client's cached token and stored expiry, the search calls
\* running on it, the tokens the provider has issued, and the outcome of the
\* latest _get_token call.
VARIABLES now, cache, tasks, provider, last

clientVars == <<now, cache, tasks, provider, last>>

vars == <<op, req, resp, now, cache, tasks, provider, last>>

None == <<>>

Some(v) == <<v>>

\* ---------------------------------------------------------------- bounds

\* Longest provider batch of flight offers that is enumerated.
MaxOffers == 2

\* ------------------------------------------------------- shared helpers

Max2(a, b) == IF a >= b THEN a ELSE b

Min2(a, b) == IF a <= b THEN a ELSE b

\* Python's int() on a value given in halves: truncation toward zero.
IntOfHalves(h) == IF h >= 0 THEN h \div 2 ELSE -((-h) \div 2)

\* Python's list[:n] for any integer n (a negative n counts from the end).
PySliceTo(s, n) ==
    LET k == IF n >= 0 THEN Min2(n, Len(s)) ELSE Max2(Len(s) + n, 0)
    IN  SubSeq(s, 1, k)

\* x * pct / 100 for the inputs of the model (all products are whole).
MulPct(x, pct) == (x * pct) \div 100

\* All sequences over S of length at most n.
SeqsUpTo(S, n) == UNION {[1..k -> S] : k \in 0..n}

\* Lexicographic order of two integer pairs, as Python orders key tuples.
KeyLess(k1, k2) == k1[1] < k2[1] \/ (k1[1] = k2[1] /\ k1[2] < k2[2])

\* One step of a sort that is not stable: e goes before the first entry whose
\* key is not smaller, so entries with equal keys end up reversed.
RECURSIVE InsertByKey_BeforeEqual(_, _)
InsertByKey_BeforeEqual(sorted, e) ==
    IF sorted = <<>> THEN <<e>>
    ELSE IF ~KeyLess(Head(sorted).key, e.key)
         THEN <<e>> \o sorted
         ELSE <<Head(sorted)>> \o InsertByKey_BeforeEqual(Tail(sorted), e)

\* One step of a stable sort: e goes before the first entry whose key is
\* strictly greater, so entries with equal keys keep their order.
RECURSIVE InsertByKey(_, _)
InsertByKey(sorted, e) ==
    IF sorted = <<>> THEN <<e>>
    ELSE IF KeyLess(e.key, Head(sorted).key)
         THEN <<e>> \o sorted
         ELSE <<Head(sorted)>> \o InsertByKey(Tail(sorted), e)

RECURSIVE SortEntries(_, _)
SortEntries(done, todo) ==
    IF todo = <<>> THEN done
    ELSE SortEntries(InsertByKey(done, Head(todo)), Tail(todo))

\* list.sort(key=...) (stable): items[i] is sorted by keys[i].
StableSort(items, keys) ==
    LET entries == [i \in 1..Len(items) |-> [item |-> items[i], key |-> keys[i]]]
        sorted  == SortEntries(<<>>, entries)
    IN  [i \in 1..Len(items) |-> sorted[i].item]

\* ------------------------------------------------------ flight domain

CabinClass == {"ECONOMY", "PREMIUM_ECONOMY", "BUSINESS", "FIRST"}

\* thresholds of _calculate_deal_score, per cabin.
FlightThresholds(cabin) ==
    CASE cabin = "BUSINESS"        -> [excellent |-> 2000, good |-> 3000, average |-> 4500]
      [] cabin = "FIRST"           -> [excellent |-> 4000, good |-> 6000, average |-> 9000]
      [] cabin = "ECONOMY"         -> [excellent |-> 400,  good |-> 600,  average |-> 900]
      [] cabin = "PREMIUM_ECONOMY" -> [excellent |-> 800,  good |-> 1200, average |-> 1800]
      [] OTHER                     -> [excellent |-> 2000, good |-> 3000, average |-> 4500]

\* The score with a whole point deducted per stop.
Flight_calculate_deal_score_WholeStops(price, cabin, stops) ==
    LET t == FlightThresholds(cabin)
        base_score == IF price <= t.excellent THEN 9
                      ELSE IF price <= t.good THEN 7
                      ELSE IF price <= t.average THEN 5
                      ELSE 3
    IN  Max2(1, Min2(10, base_score - stops))

\* FlightWidget._calculate_deal_score: the score is computed in halves
\* (base_score - stops * 0.5), truncated by int() and clamped to 1..10.
Flight_calculate_deal_score(price, cabin, stops) ==
    LET t == FlightThresholds(cabin)
        base_score == IF price <= t.excellent THEN 9
                      ELSE IF price <= t.good THEN 7
                      ELSE IF price <= t.average THEN 5
                      ELSE 3
    IN  Max2(1, Min2(10, IntOfHalves(2 * base_score - stops)))

\* FlightWidget._determine_urgency and HotelWidget._determine_urgency
\* (the two bodies are the same).
Flight_determine_urgency(deal_score) ==
    IF deal_score >= 9 THEN "critical"
    ELSE IF deal_score >= 7 THEN "high"
    ELSE IF deal_score >= 5 THEN "medium"
    ELSE "low"

\* FlightWidget._generate_sms_link: the text depends on the route and, when
\* the price is truthy, on the price.
Flight_generate_sms_link(origin, destination, price) ==
    <<"sms", origin, destination, IF price # 0 THEN Some(price) ELSE None>>

\* Raw Amadeus flight offers.  kind says how the record is shaped:
\*   ok              a dict with price.total, one itinerary and nseg segments
\*   no_price        a dict without a price (the code reads it as 0)
\*   not_a_dict      a record that is not a mapping
\*   bad_price       price.total is not numeric
\*   no_itineraries  "itineraries" is an empty list
FlightOffers ==
    [kind : {"ok"}, total : {300, 2500, 4000}, nseg : {1, 3}, id : {"", "7"}]
    \cup [kind : {"no_price", "not_a_dict", "bad_price", "no_itineraries"},
          total : {0}, nseg : {1}, id : {"9"}]

\* Whether the body of the try block of _parse_amadeus_results raises.
FlightOfferRaises(offer) == offer.kind \in {"not_a_dict", "bad_price", "no_itineraries"}

\* The deal of an offer with the expiry set from the score at which the
\* savings are set.
FlightDealOf_ExpiresFromSeven(offer, params) ==
    LET price == IF offer.kind = "no_price" THEN 0 ELSE offer.total
        stops == offer.nseg - 1
        deal_score == Flight_calculate_deal_score(price, params.cabin_class, stops)
    IN  [id              |-> <<"amadeus", offer.id>>,
         origin          |-> params.origin,
         destination     |-> params.destination,
         price           |-> price,
         original_price  |-> IF deal_score >= 7 THEN Some(MulPct(price, 135)) ELSE None,
         cabin_class     |-> params.cabin_class,
         stops           |-> stops,
         deal_score      |-> deal_score,
         savings_percent |-> IF deal_score >= 7 THEN Some(26) ELSE None,
         urgency         |-> Flight_determine_urgency(deal_score),
         expires_at      |-> IF deal_score >= 7 THEN Some("now+12h") ELSE None,
         is_mistake_fare |-> deal_score >= 9,
         source          |-> "amadeus",
         deep_link       |-> Flight_generate_sms_link(params.origin, params.destination, price)]

\* The FlightDeal that _parse_amadeus_results builds from one offer.
FlightDealOf(offer, params) ==
    LET price == IF offer.kind = "no_price" THEN 0 ELSE offer.total
        stops == offer.nseg - 1
        deal_score == Flight_calculate_deal_score(price, params.cabin_class, stops)
    IN  [id              |-> <<"amadeus", offer.id>>,
         origin          |-> params.origin,
         destination     |-> params.destination,
         price           |-> price,
         original_price  |-> IF deal_score >= 7 THEN Some(MulPct(price, 135)) ELSE None,
         cabin_class     |-> params.cabin_class,
         stops           |-> stops,
         deal_score      |-> deal_score,
         savings_percent |-> IF deal_score >= 7 THEN Some(26) ELSE None,
         urgency         |-> Flight_determine_urgency(deal_score),
         expires_at      |-> IF deal_score >= 8 THEN Some("now+12h") ELSE None,
         is_mistake_fare |-> deal_score >= 9,
         source          |-> "amadeus",
         deep_link       |-> Flight_generate_sms_link(params.origin, params.destination, price)]

\* FlightWidget._parse_amadeus_results: offers whose parse raises are skipped.
RECURSIVE Flight_parse_amadeus_results(_, _)
Flight_parse_amadeus_results(results, params) ==
    IF results = <<>> THEN <<>>
    ELSE (IF FlightOfferRaises(Head(results)) THEN <<>>
          ELSE <<FlightDealOf(Head(results), params)>>)
         \o Flight_parse_amadeus_results(Tail(results), params)

\* The representative price without the generic fallback: a route that is not
\* in the table is priced as the first row.
MockRoutePrice_FirstRow(origin, destination) ==
    CASE <<origin, destination>> = <<"JFK", "LHR">> -> 2150
      [] <<origin, destination>> = <<"LAX", "NRT">> -> 2890
      [] <<origin, destination>> = <<"LAX", "HND">> -> 2750
      [] <<origin, destination>> = <<"SFO", "HND">> -> 2650
      [] <<origin, destination>> = <<"MIA", "LHR">> -> 2350
      [] <<origin, destination>> = <<"JFK", "DXB">> -> 3200
      [] OTHER -> 1847

\* mock_routes of _get_mock_deals: the representative price of a route.
MockRoutePrice(origin, destination) ==
    CASE <<origin, destination>> = <<"JFK", "CDG">> -> 1847
      [] <<origin, destination>> = <<"JFK", "LHR">> -> 2150
      [] <<origin, destination>> = <<"LAX", "NRT">> -> 2890
      [] <<origin, destination>> = <<"LAX", "HND">> -> 2750
      [] <<origin, destination>> = <<"SFO", "HND">> -> 2650
      [] <<origin, destination>> = <<"MIA", "LHR">> -> 2350
      [] <<origin, destination>> = <<"JFK", "DXB">> -> 3200
      [] OTHER -> 2500

\* random.randint(-200, 200): the draws that are enumerated.
JitterBound == 200

Jitters == {-JitterBound, 0, JitterBound}

\* FlightWidget._get_mock_deals: one deal, its price jittered by the draw.
Flight_get_mock_deals(params, jitter) ==
    LET price == MockRoutePrice(params.origin, params.destination) + jitter
    IN  << [id              |-> <<"amadeus", params.origin, params.destination>>,
            origin          |-> params.origin,
            destination     |-> params.destination,
            price           |-> price,
            original_price  |-> Some(MulPct(price, 135)),
            cabin_class     |-> params.cabin_class,
            stops           |-> 0,
            deal_score      |-> 8,
            savings_percent |-> Some(26),
            urgency         |-> "high",
            expires_at      |-> Some("now+6h"),
            is_mistake_fare |-> FALSE,
            source          |-> "amadeus",
            deep_link       |-> Flight_generate_sms_link(params.origin, params.destination, price)] >>

\* What the provider call of a search can do: the client is not configured
\* (amadeus is None), the call raises (token acquisition fails, an HTTP
\* error status, a timeout, a body that is not JSON), or it returns data.
ProviderFailures == {"token_error", "http_error", "timeout", "bad_body"}

FlightProviderOutcomes ==
    [kind : {"unconfigured"} \cup ProviderFailures, data : {<<>>}]
    \cup [kind : {"ok"}, data : SeqsUpTo(FlightOffers, MaxOffers)]

\* AmadeusClient.search_flights as seen by its caller: it raises on any
\* failure and otherwise returns the provider's data array.
AmadeusClient_search_flights(outcome) ==
    IF outcome.kind \in ProviderFailures
    THEN [raised |-> TRUE, exc |-> outcome.kind, data |-> <<>>]
    ELSE [raised |-> FALSE, exc |-> "", data |-> outcome.data]

\* The try block of search_flights: the provider call and the normaliser.
FlightProviderTry(params, outcome) ==
    LET r == AmadeusClient_search_flights(outcome)
    IN  IF r.raised
        THEN [raised |-> TRUE, exc |-> r.exc, deals |-> <<>>]
        ELSE [raised |-> FALSE, exc |-> "",
              deals |-> Flight_parse_amadeus_results(r.data, params)]

\* A handler that catches HTTP errors only: the other failures pass through.
FlightProviderExcept_HttpOnly(attempt) ==
    IF attempt.raised /\ attempt.exc = "http_error"
    THEN [raised |-> FALSE, exc |-> "", deals |-> <<>>]
    ELSE attempt

\* "except Exception" of search_flights: the error is logged and the search
\* goes on with no deals.
FlightProviderExcept(attempt) ==
    IF attempt.raised THEN [raised |-> FALSE, exc |-> "", deals |-> <<>>]
    ELSE attempt

\* "if self.amadeus: try ... except ...": deals stays empty when no client
\* is configured.
FlightProviderDeals(params, outcome) ==
    IF outcome.kind = "unconfigured"
    THEN [raised |-> FALSE, exc |-> "", deals |-> <<>>]
    ELSE FlightProviderExcept(FlightProviderTry(params, outcome))

FlightSortKeys(deals) == [i \in 1..Len(deals) |-> <<-deals[i].deal_score, deals[i].price>>]

\* FlightWidget.search_flights.
FlightWidget_search_flights(params, outcome, jitter) ==
    LET attempt == FlightProviderDeals(params, outcome)
        deals  == IF attempt.deals = <<>> THEN Flight_get_mock_deals(params, jitter)
                  ELSE attempt.deals
        sorted == StableSort(deals, FlightSortKeys(deals))
    IN  IF attempt.raised
        THEN [raised |-> TRUE, exc |-> attempt.exc, mocked |-> FALSE, items |-> <<>>]
        ELSE [raised |-> FALSE, exc |-> "",
              mocked |-> attempt.deals = <<>>,
              items  |-> PySliceTo(sorted, params.max_results)]

\* ------------------------------------------------------- hotel domain

UpperChars == <<"A","B","C","D","E","F","G","H","I","J","K","L","M",
                "N","O","P","Q","R","S","T","U","V","W","X","Y","Z">>

LowerChars == <<"a","b","c","d","e","f","g","h","i","j","k","l","m",
                "n","o","p","q","r","s","t","u","v","w","x","y","z">>

\* str.lower() on a sequence of characters.
PyLower(str) ==
    [i \in 1..Len(str) |->
        IF \E k \in 1..Len(UpperChars) : UpperChars[k] = str[i]
        THEN LowerChars[CHOOSE k \in 1..Len(UpperChars) : UpperChars[k] = str[i]]
        ELSE str[i]]

IsSpace(c) == c = " "

IsNotSpace(c) == ~IsSpace(c)

\* str.replace(" ", "").
PyRemoveSpaces(str) == SelectSeq(str, IsNotSpace)

\* The length of the dedupe key of search_hotels.
NameKeyLen == 20

\* name_key of search_hotels: hotel.name.lower().replace(" ", "")[:20].
NameKey(name) == PySliceTo(PyRemoveSpaces(PyLower(name)), NameKeyLen)

\* Hotel names: two spellings of one name, two names that differ only past
\* the 20th character of the key, and one that differs before it.
NameRitz == <<"R", "i", "t", "z", " ", "P", "a", "r", "i", "s">>

NameRitzUpper == <<"R", "I", "T", "Z", " ", "P", "A", "R", "I", "S">>

NameGeorgeV == <<"F", "o", "u", "r", " ", "S", "e", "a", "s", "o", "n", "s", " ", "H", "o", "t", "e", "l", " ", "G", "e", "o", "r", "g", "e", " ", "V">>

NameGeorgia == <<"F", "o", "u", "r", " ", "S", "e", "a", "s", "o", "n", "s", " ", "H", "o", "t", "e", "l", " ", "G", "e", "o", "r", "g", "i", "a">>

NameGstaad == <<"F", "o", "u", "r", " ", "S", "e", "a", "s", "o", "n", "s", " ", "H", "o", "t", "e", "l", " ", "G", "s", "t", "a", "a", "d">>

HotelNames == {NameRitz, NameRitzUpper, NameGeorgeV, NameGeorgia, NameGstaad}

\* Per-night price, rating (tenths) and hotelId of the enumerated offers.
HotelRates ==
    {[ppn |-> 240, rating |-> 50, hotelId |-> "H1"],
     [ppn |-> 460, rating |-> 45, hotelId |-> "H2"],
     [ppn |-> 900, rating |-> 38, hotelId |-> "H3"]}

\* Raw Amadeus hotel offers.  kind says how the record is shaped:
\*   ok            hotel.name is a string, offers[0].price.total is numeric
\*   null_name     as ok, but hotel.name is null
\*   not_a_dict    a record that is not a mapping
\*   bad_price     offers[0].price.total is not numeric
\*   empty_offers  "offers" is an empty list
HotelOffers ==
    {[kind |-> "ok", name |-> Some(n), ppn |-> r.ppn, rating |-> r.rating,
      hotelId |-> r.hotelId] : n \in HotelNames, r \in HotelRates}
    \cup {[kind |-> "null_name", name |-> None, ppn |-> 460, rating |-> 45, hotelId |-> "H4"]}
    \cup {[kind |-> k, name |-> Some(NameRitz), ppn |-> 0, rating |-> 45, hotelId |-> "H5"] :
            k \in {"not_a_dict", "bad_price", "empty_offers"}}

\* A date string: Some(day number) when it parses as YYYY-MM-DD, None otherwise.
\* HotelWidget._calculate_nights.
Hotel_calculate_nights(check_in, check_out) ==
    IF check_in = None \/ check_out = None THEN 1
    ELSE Max2(1, check_out[1] - check_in[1])

\* The score with the rating bonus applied below 4.0 as well.
Hotel_calculate_deal_score_AnyRating(price, rating) ==
    LET price_score == IF price <= 300 THEN 9
                       ELSE IF price <= 500 THEN 7
                       ELSE IF price <= 800 THEN 5
                       ELSE 3
    IN  Max2(1, Min2(10, (5 * price_score + (rating - 40)) \div 5))

\* HotelWidget._calculate_deal_score, the rating in tenths:
\* int(price_score + (rating - 4.0) * 2) is price_score + (rating10 - 40) \div 5.
Hotel_calculate_deal_score(price, rating) ==
    LET price_score == IF price <= 300 THEN 9
                       ELSE IF price <= 500 THEN 7
                       ELSE IF price <= 800 THEN 5
                       ELSE 3
        rating_bonus5 == IF rating >= 40 THEN rating - 40 ELSE 0
    IN  Max2(1, Min2(10, (5 * price_score + rating_bonus5) \div 5))

\* HotelWidget._determine_urgency.
Hotel_determine_urgency(deal_score) ==
    IF deal_score >= 9 THEN "critical"
    ELSE IF deal_score >= 7 THEN "high"
    ELSE IF deal_score >= 5 THEN "medium"
    ELSE "low"

HotelOfferRaises(offer) == offer.kind \in {"not_a_dict", "bad_price", "empty_offers"}

\* The HotelResult that _parse_amadeus_results builds from one offer; the
\* provider's total is the per-night price times the nights of the stay.
HotelResultOf(offer, params) ==
    LET nights == Hotel_calculate_nights(params.check_in, params.check_out)
        price  == offer.ppn * nights
        price_per_night == IF nights > 0 THEN price \div nights ELSE price
        deal_score == Hotel_calculate_deal_score(price_per_night, offer.rating)
    IN  [id              |-> <<"amadeus", offer.hotelId>>,
         name            |-> offer.name,
         city            |-> params.location,
         rating          |-> offer.rating,
         price_per_night |-> price_per_night,
         original_price  |-> IF deal_score >= 7 THEN Some(MulPct(price_per_night, 125)) ELSE None,
         total_price     |-> price,
         star_rating     |-> offer.rating \div 10,
         deal_score      |-> deal_score,
         savings_percent |-> IF deal_score >= 7 THEN Some(20) ELSE None,
         urgency         |-> Hotel_determine_urgency(deal_score),
         source          |-> "amadeus"]

\* HotelWidget._parse_amadeus_results.
RECURSIVE Hotel_parse_amadeus_results(_, _)
Hotel_parse_amadeus_results(results, params) ==
    IF results = <<>> THEN <<>>
    ELSE (IF HotelOfferRaises(Head(results)) THEN <<>>
          ELSE <<HotelResultOf(Head(results), params)>>)
         \o Hotel_parse_amadeus_results(Tail(results), params)


\* Curated hotel records (the /api/hotels/curated shape).  A record whose
\* category is not a HotelCategory value makes the parse raise.
CuratedRecords ==
    [kind : {"ok"}, id : {"c1"}, name : {Some(NameRitz)}, price : {240, 460, 850},
     rating : {38, 48, 50}, originalPrice : {None, Some(1000)},
     savingsPercent : {None, Some(15)}]
    \cup [kind : {"bad_category"}, id : {"c2"}, name : {Some(NameGstaad)}, price : {460},
          rating : {48}, originalPrice : {None}, savingsPercent : {None}]

\* The HotelResult that _parse_curated_results builds from one record: the
\* stored score is boosted by one, the urgency is taken from the score
\* before the boost, and the savings fields are copied from the record.
CuratedResultOf(hotel_data, params) ==
    LET price  == hotel_data.price
        nights == Hotel_calculate_nights(params.check_in, params.check_out)
        deal_score == Hotel_calculate_deal_score(price, hotel_data.rating)
    IN  [id              |-> <<"curated", hotel_data.id>>,
         name            |-> hotel_data.name,
         city            |-> params.location,
         rating          |-> hotel_data.rating,
         price_per_night |-> price,
         original_price  |-> hotel_data.originalPrice,
         total_price     |-> price * nights,
         star_rating     |-> 5,
         deal_score      |-> deal_score + 1,
         savings_percent |-> hotel_data.savingsPercent,
         urgency         |-> Hotel_determine_urgency(deal_score),
         source          |-> "curated"]

\* HotelWidget._parse_curated_results.
RECURSIVE Hotel_parse_curated_results(_, _)
Hotel_parse_curated_results(results, params) ==
    IF results = <<>> THEN <<>>
    ELSE (IF Head(results).kind = "bad_category" THEN <<>>
          ELSE <<CuratedResultOf(Head(results), params)>>)
         \o Hotel_parse_curated_results(Tail(results), params)

\* location_lower of _get_mock_hotels after the code_map lookup.
MockLocationKey(location) ==
    CASE location = "PAR" -> "paris"
      [] location = "TYO" -> "tokyo"
      [] location = "DXB" -> "dubai"
      [] location = "MLE" -> "maldives"
      [] location = "DPS" -> "bali"
      [] location = "Unknownsville" -> "unknownsville"
      [] OTHER -> location

\* params.location.title() as characters.
LocationTitle(location) ==
    CASE location = "PAR" -> <<"P", "a", "r">>
      [] OTHER -> <<"U", "n", "k", "n", "o", "w", "n", "s", "v", "i", "l", "l", "e">>

\* hotels_data of _get_mock_hotels: the table entry of the location, or the
\* three generic hotels named after it.
MockHotelsData(params) ==
    IF MockLocationKey(params.location) = "paris"
    THEN << [name |-> NameGeorgeV, price |-> 895, rating |-> 49],
            [name |-> <<"L", "e", " ", "B", "r", "i", "s", "t", "o", "l", " ", "P", "a", "r", "i", "s">>, price |-> 1050, rating |-> 49],
            [name |-> NameRitz, price |-> 1200, rating |-> 48] >>
    ELSE IF MockLocationKey(params.location) = "tokyo"
    THEN << [name |-> <<"A", "m", "a", "n", " ", "T", "o", "k", "y", "o">>, price |-> 1100, rating |-> 49],
            [name |-> <<"P", "a", "r", "k", " ", "H", "y", "a", "t", "t", " ", "T", "o", "k", "y", "o">>, price |-> 650, rating |-> 48],
            [name |-> <<"T", "h", "e", " ", "P", "e", "n", "i", "n", "s", "u", "l", "a", " ", "T", "o", "k", "y", "o">>, price |-> 750, rating |-> 48] >>
    ELSE IF MockLocationKey(params.location) = "dubai"
    THEN << [name |-> <<"B", "u", "r", "j", " ", "A", "l", " ", "A", "r", "a", "b", " ", "J", "u", "m", "e", "i", "r", "a", "h">>, price |-> 1500, rating |-> 49],
            [name |-> <<"O", "n", "e", "&", "O", "n", "l", "y", " ", "T", "h", "e", " ", "P", "a", "l", "m">>, price |-> 950, rating |-> 48],
            [name |-> <<"A", "r", "m", "a", "n", "i", " ", "H", "o", "t", "e", "l", " ", "D", "u", "b", "a", "i">>, price |-> 650, rating |-> 47] >>
    ELSE IF MockLocationKey(params.location) = "maldives"
    THEN << [name |-> <<"S", "o", "n", "e", "v", "a", " ", "F", "u", "s", "h", "i">>, price |-> 2500, rating |-> 49],
            [name |-> <<"O", "n", "e", "&", "O", "n", "l", "y", " ", "R", "e", "e", "t", "h", "i", " ", "R", "a", "h">>, price |-> 2200, rating |-> 49],
            [name |-> <<"C", "h", "e", "v", "a", "l", " ", "B", "l", "a", "n", "c", " ", "R", "a", "n", "d", "h", "e", "l", "i">>, price |-> 3000, rating |-> 49] >>
    ELSE IF MockLocationKey(params.location) = "bali"
    THEN << [name |-> <<"A", "m", "a", "n", " ", "V", "i", "l", "l", "a", "s", " ", "a", "t", " ", "N", "u", "s", "a", " ", "D", "u", "a">>, price |-> 1500, rating |-> 49],
            [name |-> <<"F", "o", "u", "r", " ", "S", "e", "a", "s", "o", "n", "s", " ", "R", "e", "s", "o", "r", "t", " ", "B", "a", "l", "i">>, price |-> 950, rating |-> 49],
            [name |-> <<"B", "u", "l", "g", "a", "r", "i", " ", "R", "e", "s", "o", "r", "t", " ", "B", "a", "l", "i">>, price |-> 1200, rating |-> 48] >>
    ELSE << [name |-> <<"F", "o", "u", "r", " ", "S", "e", "a", "s", "o", "n", "s", " ">> \o LocationTitle(params.location), price |-> 895, rating |-> 49],
            [name |-> <<"R", "i", "t", "z", "-", "C", "a", "r", "l", "t", "o", "n", " ">> \o LocationTitle(params.location), price |-> 750, rating |-> 48],
            [name |-> <<"S", "t", ".", " ", "R", "e", "g", "i", "s", " ">> \o LocationTitle(params.location), price |-> 850, rating |-> 48] >>

\* The mock hotels with the score and the urgency computed from the rate and
\* the rating, as for offers of the provider, instead of fixed.
Hotel_get_mock_hotels_Computed(params) ==
    LET hotels_data == MockHotelsData(params)
        nights == Hotel_calculate_nights(params.check_in, params.check_out)
    IN  [i \in 1..Len(hotels_data) |->
          LET score == Hotel_calculate_deal_score(hotels_data[i].price, hotels_data[i].rating)
          IN  [id              |-> <<"amadeus", MockLocationKey(params.location), i - 1>>,
               name            |-> Some(hotels_data[i].name),
               city            |-> params.location,
               rating          |-> hotels_data[i].rating,
               price_per_night |-> hotels_data[i].price,
               original_price  |-> Some(MulPct(hotels_data[i].price, 125)),
               total_price     |-> hotels_data[i].price * nights,
               star_rating     |-> 5,
               deal_score      |-> score,
               savings_percent |-> Some(20),
               urgency         |-> Hotel_determine_urgency(score),
               source          |-> "amadeus"]]

\* HotelWidget._get_mock_hotels.
Hotel_get_mock_hotels(params) ==
    LET hotels_data == MockHotelsData(params)
        nights == Hotel_calculate_nights(params.check_in, params.check_out)
    IN  [i \in 1..Len(hotels_data) |->
          [id              |-> <<"amadeus", MockLocationKey(params.location), i - 1>>,
           name            |-> Some(hotels_data[i].name),
           city            |-> params.location,
           rating          |-> hotels_data[i].rating,
           price_per_night |-> hotels_data[i].price,
           original_price  |-> Some(MulPct(hotels_data[i].price, 125)),
           total_price     |-> hotels_data[i].price * nights,
           star_rating     |-> 5,
           deal_score      |-> 8,
           savings_percent |-> Some(20),
           urgency         |-> "high",
           source          |-> "amadeus"]]

\* A dedupe that keeps the last hotel of every name key instead of the first.
DedupeByName_KeepLast(results, seen_names) ==
    LET kept == {i \in 1..Len(results) :
                    /\ NameKey(results[i].name[1]) \notin seen_names
                    /\ \A j \in (i+1)..Len(results) :
                          NameKey(results[j].name[1]) # NameKey(results[i].name[1])}
        IsKept(i) == i \in kept
        indexes == SelectSeq([i \in 1..Len(results) |-> i], IsKept)
    IN  [k \in 1..Len(indexes) |-> results[indexes[k]]]

\* The dedupe loop of search_hotels: a hotel is kept when its name key has
\* not been seen.
RECURSIVE DedupeByName(_, _)
DedupeByName(results, seen_names) ==
    IF results = <<>> THEN <<>>
    ELSE LET name_key == NameKey(Head(results).name[1])
         IN  IF name_key \in seen_names
             THEN DedupeByName(Tail(results), seen_names)
             ELSE <<Head(results)>> \o DedupeByName(Tail(results), seen_names \cup {name_key})

\* AmadeusHotelClient.search_hotels as seen by its caller.
AmadeusHotelClient_search_hotels(outcome) ==
    IF outcome.kind \in ProviderFailures
    THEN [raised |-> TRUE, exc |-> outcome.kind, data |-> <<>>]
    ELSE [raised |-> FALSE, exc |-> "", data |-> outcome.data]

\* The try block of search_hotels: the provider call and the normaliser.
HotelProviderTry(params, outcome) ==
    LET r == AmadeusHotelClient_search_hotels(outcome)
    IN  IF r.raised
        THEN [raised |-> TRUE, exc |-> r.exc, results |-> <<>>]
        ELSE [raised |-> FALSE, exc |-> "",
              results |-> Hotel_parse_amadeus_results(r.data, params)]

\* "except Exception" of search_hotels.
HotelProviderExcept(attempt) ==
    IF attempt.raised THEN [raised |-> FALSE, exc |-> "", results |-> <<>>]
    ELSE attempt

\* "if self.amadeus: try ... except ...".
HotelProviderResults(params, outcome) ==
    IF outcome.kind = "unconfigured"
    THEN [raised |-> FALSE, exc |-> "", results |-> <<>>]
    ELSE HotelProviderExcept(HotelProviderTry(params, outcome))

HotelSortKeys(hotels) == [i \in 1..Len(hotels) |-> <<-hotels[i].deal_score, -hotels[i].rating>>]

\* The cap of search_hotels and search_restaurants.
ResultCap == 10

\* HotelWidget.search_hotels.  hotel.name.lower() raises AttributeError on a
\* name that is None, outside any try block, so the call raises.
HotelWidget_search_hotels(params, outcome) ==
    LET attempt == HotelProviderResults(params, outcome)
        results == IF attempt.results = <<>> THEN Hotel_get_mock_hotels(params)
                   ELSE attempt.results
    IN  IF attempt.raised
        THEN [raised |-> TRUE, exc |-> attempt.exc, mocked |-> FALSE, items |-> <<>>]
        ELSE IF \E i \in 1..Len(results) : results[i].name = None
        THEN [raised |-> TRUE, exc |-> "AttributeError",
              mocked |-> attempt.results = <<>>, items |-> <<>>]
        ELSE LET unique_results == DedupeByName(results, {})
                 sorted == StableSort(unique_results, HotelSortKeys(unique_results))
             IN  [raised |-> FALSE, exc |-> "",
                  mocked |-> attempt.results = <<>>,
                  items  |-> PySliceTo(sorted, ResultCap)]
\* -------------------------------------------------- restaurant domain

\* mock_data of _get_mock_restaurants: name, Michelin stars, rating (tenths).
\* A location that is not in the table gets the Paris entries.
MockRestaurantsData(location_lower) ==
    CASE location_lower = "tokyo" ->
            << [name |-> "Sukiyabashi Jiro", michelin |-> 3, rating |-> 49],
               [name |-> "Narisawa", michelin |-> 2, rating |-> 48],
               [name |-> "Den", michelin |-> 2, rating |-> 48] >>
      [] location_lower = "new york" ->
            << [name |-> "Eleven Madison Park", michelin |-> 3, rating |-> 48],
               [name |-> "Le Bernardin", michelin |-> 3, rating |-> 49],
               [name |-> "Carbone", michelin |-> 0, rating |-> 46] >>
      [] location_lower = "miami" ->
            << [name |-> "Fiola Miami", michelin |-> 0, rating |-> 47],
               [name |-> "Ariete", michelin |-> 0, rating |-> 46],
               [name |-> "Stubborn Seed", michelin |-> 0, rating |-> 47] >>
      [] OTHER ->
            << [name |-> "Le Cinq", michelin |-> 3, rating |-> 49],
               [name |-> "L'Ambroisie", michelin |-> 3, rating |-> 49],
               [name |-> "Septime", michelin |-> 1, rating |-> 47] >>

RestaurantLocationLower(location) ==
    CASE location = "Paris" -> "paris"
      [] location = "New York" -> "new york"
      [] location = "Miami" -> "miami"
      [] location = "Tokyo" -> "tokyo"
      [] OTHER -> "atlantis"

\* random.sample(base_times, 4), sorted: the draws that are enumerated.
TimeDraws ==
    {<<"18:00", "18:30", "19:00", "19:30">>, <<"18:30", "19:30", "20:30", "21:00">>}

\* RestaurantWidget._get_mock_restaurants; draws[i] is the sample of entry i.
Restaurant_get_mock_restaurants(params, draws) ==
    LET location_lower == RestaurantLocationLower(params.location)
        restaurants_data == MockRestaurantsData(location_lower)
    IN  [i \in 1..Len(restaurants_data) |->
          [id              |-> <<"opentable", location_lower, i - 1>>,
           name            |-> restaurants_data[i].name,
           city            |-> params.location,
           rating          |-> restaurants_data[i].rating,
           michelin_stars  |-> restaurants_data[i].michelin,
           available_times |-> draws[i],
           next_available  |-> IF draws[i] # <<>> THEN Some(draws[i][1]) ELSE None,
           source          |-> "opentable"]]

RestaurantSortKeys(rs) == [i \in 1..Len(rs) |-> <<-rs[i].michelin_stars, -rs[i].rating>>]

\* RestaurantWidget.search_restaurants.
RestaurantWidget_search_restaurants(params, draws) ==
    LET results == Restaurant_get_mock_restaurants(params, draws)
        sorted  == StableSort(results, RestaurantSortKeys(results))
    IN  [raised |-> FALSE, exc |-> "", mocked |-> TRUE,
         items  |-> PySliceTo(sorted, ResultCap)]


\* ------------------------------------------------------------ widget data

\* The truth value of an Optional number: None and 0 are falsy.
Truthy(x) == x # None /\ x[1] # 0

\* FlightDeal.to_widget_format: the keys that carry data of the deal.
Flight_to_widget_format(d) ==
    [id            |-> d.id,
     routeCode     |-> <<d.origin, "->", d.destination>>,
     price         |-> <<"$", d.price>>,
     priceNumeric  |-> d.price,
     originalPrice |-> IF Truthy(d.original_price) THEN Some(<<"$", d.original_price[1]>>)
                       ELSE None,
     savings       |-> IF Truthy(d.savings_percent) THEN Some(<<d.savings_percent[1], "% off">>)
                       ELSE None,
     dealScore     |-> d.deal_score,
     urgency       |-> d.urgency,
     expires       |-> d.expires_at,
     isMistakeFare |-> d.is_mistake_fare,
     stops         |-> d.stops,
     stopsDisplay  |-> IF d.stops = 0 THEN <<"Nonstop">>
                       ELSE <<d.stops, IF d.stops > 1 THEN " stops" ELSE " stop">>,
     source        |-> d.source,
     deepLink      |-> d.deep_link]

\* HotelResult.to_widget_format.
Hotel_to_widget_format(h) ==
    [id            |-> h.id,
     name          |-> h.name,
     city          |-> h.city,
     rating        |-> h.rating,
     price         |-> <<"$", h.price_per_night>>,
     pricePerNight |-> <<"$", h.price_per_night, "/night">>,
     originalPrice |-> IF Truthy(h.original_price) THEN Some(<<"$", h.original_price[1]>>)
                       ELSE None,
     totalPrice    |-> <<"$", h.total_price>>,
     stars         |-> h.star_rating,
     dealScore     |-> h.deal_score,
     savings       |-> IF Truthy(h.savings_percent) THEN Some(<<h.savings_percent[1], "% off">>)
                       ELSE None,
     urgency       |-> h.urgency,
     source        |-> h.source]

\* RestaurantResult.to_widget_format.
Restaurant_to_widget_format(r) ==
    [id             |-> r.id,
     name           |-> r.name,
     city           |-> r.city,
     rating         |-> r.rating,
     michelinStars  |-> r.michelin_stars,
     michelinDisplay |-> IF r.michelin_stars > 0 THEN Some(r.michelin_stars) ELSE None,
     availableTimes |-> PySliceTo(r.available_times, 4),
     nextAvailable  |-> r.next_available,
     source         |-> r.source]

\* FlightWidget.DEFAULT_ROUTES.
DEFAULT_ROUTES ==
    <<<<"JFK", "CDG">>, <<"LAX", "NRT">>, <<"MIA", "LHR">>, <<"SFO", "HND">>, <<"JFK", "DXB">>>>

\* HotelWidget.FEATURED_DESTINATIONS, by code.
FEATURED_DESTINATIONS == <<"PAR", "TYO", "DXB", "MLE", "DPS">>

\* FlightWidget._create_mock_deal.
Flight_create_mock_deal ==
    [id              |-> <<"amadeus", "JFK", "CDG">>,
     origin          |-> "JFK",
     destination     |-> "CDG",
     price           |-> 1847,
     original_price  |-> Some(2497),
     cabin_class     |-> "BUSINESS",
     stops           |-> 0,
     deal_score      |-> 8,
     savings_percent |-> Some(26),
     urgency         |-> "high",
     expires_at      |-> Some("now+6h"),
     is_mistake_fare |-> FALSE,
     source          |-> "amadeus",
     deep_link       |-> Flight_generate_sms_link("JFK", "CDG", 1847)]

\* HotelWidget._create_mock_hotel.
Hotel_create_mock_hotel ==
    [id              |-> <<"amadeus", "paris", "001">>,
     name            |-> Some(NameGeorgeV),
     city            |-> "Paris",
     rating          |-> 49,
     price_per_night |-> 895,
     original_price  |-> Some(1195),
     total_price     |-> 2685,
     star_rating     |-> 5,
     deal_score      |-> 8,
     savings_percent |-> Some(25),
     urgency         |-> "high",
     source          |-> "amadeus"]

\* One pass of the fan-out loop of get_widget_data over the searches of the
\* remaining routes: a search that raises is logged and the loop goes on; the
\* first result of a search is kept; the loop breaks once max_count results
\* are held.
RECURSIVE FanOut(_, _, _, _)
FanOut(searches, kept, ran, max_count) ==
    IF searches = <<>> THEN [kept |-> kept, ran |-> ran]
    ELSE LET s == Head(searches)
             held == IF ~s.raised /\ s.items # <<>> THEN Append(kept, s.items[1]) ELSE kept
         IN  IF ~s.raised /\ Len(held) >= max_count THEN [kept |-> held, ran |-> ran + 1]
             ELSE FanOut(Tail(searches), held, ran + 1, max_count)

\* FlightWidget.get_widget_data: outcomes[i] is what the provider does on the
\* search of route i.
Flight_get_widget_data(max_deals, outcomes, jitter) ==
    LET routes == PySliceTo(DEFAULT_ROUTES, max_deals + 2)
        searches == [i \in 1..Len(routes) |->
                        FlightWidget_search_flights(
                            [origin |-> routes[i][1], destination |-> routes[i][2],
                             cabin_class |-> "BUSINESS", max_results |-> 1],
                            outcomes[i], jitter)]
        fan == FanOut(searches, <<>>, 0, max_deals)
        found == fan.kept
        deals == IF found = <<>> THEN <<Flight_create_mock_deal>> ELSE found
        shown == PySliceTo(deals, max_deals)
    IN  [raised   |-> FALSE,
         searched |-> fan.ran,
         hero     |-> found = <<>>,
         topItem  |-> IF deals # <<>> THEN Some(Flight_to_widget_format(deals[1])) ELSE None,
         allItems |-> [i \in 1..Len(shown) |-> Flight_to_widget_format(shown[i])]]

\* A hotel widget without the hero: nothing found leaves the payload empty.
Hotel_get_widget_data_NoHero(max_hotels, outcomes) ==
    LET dests == PySliceTo(FEATURED_DESTINATIONS, max_hotels + 2)
        searches == [i \in 1..Len(dests) |->
                        HotelWidget_search_hotels(
                            [location |-> dests[i], check_in |-> Some(30),
                             check_out |-> Some(33)],
                            outcomes[i])]
        fan == FanOut(searches, <<>>, 0, max_hotels)
        hotels == fan.kept
        shown == PySliceTo(hotels, max_hotels)
    IN  [raised   |-> FALSE,
         searched |-> fan.ran,
         hero     |-> FALSE,
         topItem  |-> IF hotels # <<>> THEN Some(Hotel_to_widget_format(hotels[1])) ELSE None,
         allItems |-> [i \in 1..Len(shown) |-> Hotel_to_widget_format(shown[i])]]

\* HotelWidget.get_widget_data.
Hotel_get_widget_data(max_hotels, outcomes) ==
    LET dests == PySliceTo(FEATURED_DESTINATIONS, max_hotels + 2)
        searches == [i \in 1..Len(dests) |->
                        HotelWidget_search_hotels(
                            [location |-> dests[i], check_in |-> Some(30),
                             check_out |-> Some(33)],
                            outcomes[i])]
        fan == FanOut(searches, <<>>, 0, max_hotels)
        found == fan.kept
        hotels == IF found = <<>> THEN <<Hotel_create_mock_hotel>> ELSE found
        shown == PySliceTo(hotels, max_hotels)
    IN  [raised   |-> FALSE,
         searched |-> fan.ran,
         hero     |-> found = <<>>,
         topItem  |-> IF hotels # <<>> THEN Some(Hotel_to_widget_format(hotels[1])) ELSE None,
         allItems |-> [i \in 1..Len(shown) |-> Hotel_to_widget_format(shown[i])]]

\* RestaurantWidget.get_widget_data: one search, no fan-out and no hero.
Restaurant_get_widget_data(location, max_restaurants, draws) ==
    LET target_location == IF location = None \/ location = Some("") THEN "Paris"
                           ELSE location[1]
        search == RestaurantWidget_search_restaurants(
                      [location |-> target_location, date |-> Some(1)], draws)
        restaurants == search.items
        shown == PySliceTo(restaurants, max_restaurants)
    IN  [raised   |-> FALSE,
         searched |-> 1,
         hero     |-> FALSE,
         topItem  |-> IF restaurants # <<>>
                      THEN Some(Restaurant_to_widget_format(restaurants[1])) ELSE None,
         allItems |-> [i \in 1..Len(shown) |-> Restaurant_to_widget_format(shown[i])]]
\* ------------------------------------------- tool functions, HTTP routes

\* str.upper() and str.lower() on the enumerated enum strings.
PyUpperToken(s) ==
    CASE s = "business" -> "BUSINESS"
      [] s = "Luxury"   -> "LUXURY"
      [] OTHER          -> s

PyLowerToken(s) ==
    CASE s = "LUXURY" -> "luxury"
      [] s = "Palace" -> "palace"
      [] s = "ALL"    -> "all"
      [] s = "French" -> "french"
      [] s = "Thai"   -> "thai"
      [] OTHER        -> s

HotelCategory == {"luxury", "boutique", "resort", "business", "all"}

CuisineType == {"french", "italian", "japanese", "american", "mediterranean",
                "seafood", "steakhouse", "asian_fusion", "fine_dining", "all"}

\* search_flights_tool: CabinClass(cabin_class.upper()) raises ValueError for
\* a string that is no member; the dates are passed on as they are.
search_flights_tool(args, outcome, jitter) ==
    IF PyUpperToken(args.cabin_class) \notin CabinClass
    THEN [raised |-> TRUE, exc |-> "ValueError", success |-> FALSE, count |-> 0]
    ELSE LET params == [origin |-> args.origin, destination |-> args.destination,
                        cabin_class |-> PyUpperToken(args.cabin_class),
                        max_results |-> args.max_results]
             Result(r) == [raised |-> r.raised, exc |-> r.exc, success |-> ~r.raised,
                           count |-> Len(r.items)]
         IN  Result(FlightWidget_search_flights(params, outcome, jitter))

\* search_hotels_tool: HotelCategory(category.lower()).
search_hotels_tool(args, outcome) ==
    IF PyLowerToken(args.category) \notin HotelCategory
    THEN [raised |-> TRUE, exc |-> "ValueError", success |-> FALSE, count |-> 0]
    ELSE LET params == [location |-> args.location, check_in |-> args.check_in,
                        check_out |-> args.check_out]
             Result(r) == [raised |-> r.raised, exc |-> r.exc, success |-> ~r.raised,
                           count |-> Len(r.items)]
         IN  Result(HotelWidget_search_hotels(params, outcome))

\* search_restaurants_tool: CuisineType(cuisine.lower()) unless it is "all".
search_restaurants_tool(args, draws) ==
    IF PyLowerToken(args.cuisine) # "all" /\ PyLowerToken(args.cuisine) \notin CuisineType
    THEN [raised |-> TRUE, exc |-> "ValueError", success |-> FALSE, count |-> 0]
    ELSE LET params == [location |-> args.location, date |-> args.date]
             Result(r) == [raised |-> r.raised, exc |-> r.exc, success |-> ~r.raised,
                           count |-> Len(r.items)]
         IN  Result(RestaurantWidget_search_restaurants(params, draws))

\* The status of the HTTPException raised by the except clause of the routes.
RouteErrorStatus == 500

\* The routes /api/flights/search, /api/hotels/search, /api/restaurants/search
\* of main.py: the tool's result with status 200, or, for any exception of
\* the tool, HTTPException(status_code=500).
HttpRoute(tool_result) ==
    IF tool_result.raised
    THEN [http_status |-> RouteErrorStatus, success |-> FALSE, count |-> 0,
          detail |-> tool_result.exc]
    ELSE [http_status |-> 200, success |-> tool_result.success,
          count |-> tool_result.count, detail |-> ""]

\* ------------------------------------------------------ WhatsApp webhook

\* hmac.new(secret, body, sha256).hexdigest(): a digest that is determined by
\* the key and the body, and differs when either differs.
HmacSha256(secret, body) == <<"hmac", secret, body.id>>

\* "sha256=" + digest.
SignatureOf(secret, body) == <<"sha256=", HmacSha256(secret, body)>>

\* str.startswith on a button id given as its parts ("book_", "flight_", id).
StartsWith(button_id, prefix) == Len(button_id) > 0 /\ button_id[1] = prefix

\* The body of the message loop of whatsapp_incoming: what is logged for one
\* message.
MessageEvent(message) ==
    IF message.type = "text" THEN <<"text", message.from>>
    ELSE IF message.type = "interactive"
         THEN IF StartsWith(message.button_id, "book_") THEN <<"button", "booking">>
              ELSE IF StartsWith(message.button_id, "details_") THEN <<"button", "details">>
              ELSE IF StartsWith(message.button_id, "cart_") THEN <<"button", "cart">>
              ELSE <<"button", "click">>
         ELSE <<"ignored", message.type>>

\* The two loops of whatsapp_incoming over value.messages and value.statuses.
PayloadEvents(payload) ==
    [i \in 1..Len(payload.messages) |-> MessageEvent(payload.messages[i])]
    \o [i \in 1..Len(payload.statuses) |-> <<"status", payload.statuses[i]>>]

\* The try block of whatsapp_incoming.  The signature is compared only when
\* both APP_SECRET and the header are non-empty; a mismatch raises
\* HTTPException(401) inside the try block.
WebhookTry(app_secret, signature, body) ==
    IF app_secret # "" /\ signature # None
       /\ signature[1] # SignatureOf(app_secret, body)
    THEN [raised |-> TRUE, exc |-> "HTTPException(401)", events |-> <<>>]
    ELSE IF body.kind = "bad_json"
    THEN [raised |-> TRUE, exc |-> "JSONDecodeError", events |-> <<>>]
    ELSE IF body.kind = "empty_entry"
    THEN [raised |-> TRUE, exc |-> "IndexError", events |-> <<>>]
    ELSE [raised |-> FALSE, exc |-> "", events |-> PayloadEvents(body)]

\* whatsapp_incoming: "except Exception" also catches the HTTPException of
\* the signature check, and the handler then returns a body, so the status of
\* the response is 200 in every case.
whatsapp_incoming(app_secret, signature, body) ==
    LET t == WebhookTry(app_secret, signature, body)
    IN  IF t.raised
        THEN [http_status |-> 200, status |-> "error", message |-> t.exc,
              events |-> <<>>]
        ELSE [http_status |-> 200, status |-> "received", message |-> "",
              events |-> t.events]

TextMessage == [type |-> "text", from |-> "15550001", button_id |-> <<>>]

BookClick ==
    [type |-> "interactive", from |-> "15550001",
     button_id |-> <<"book_", "flight_", "amadeus_7">>]

ReserveClick ==
    [type |-> "interactive", from |-> "15550002",
     button_id |-> <<"reserve_", "opentable_paris_0">>]

\* Request bodies: payloads with messages and statuses, a payload whose
\* "entry" is an empty list, and a body that is not JSON.
WebhookBodies ==
    {[id |-> 1, kind |-> "ok", messages |-> <<TextMessage>>, statuses |-> <<>>],
     [id |-> 2, kind |-> "ok", messages |-> <<BookClick, ReserveClick>>,
      statuses |-> <<"delivered">>],
     [id |-> 3, kind |-> "ok", messages |-> <<>>, statuses |-> <<"read">>],
     [id |-> 4, kind |-> "empty_entry", messages |-> <<>>, statuses |-> <<>>],
     [id |-> 5, kind |-> "bad_json", messages |-> <<>>, statuses |-> <<>>]}

\* X-Hub-Signature-256 of a request with the given body: absent or empty
\* (None), the signature of this body under the secret, the signature of
\* another body, a signature under another key, and another scheme.
WebhookSignatures(body) ==
    {None, Some(SignatureOf("s3cret", body))}
    \cup {Some(SignatureOf("s3cret", b)) : b \in WebhookBodies \ {body}}
    \cup {Some(SignatureOf("guess", body)), Some(<<"sha1=", HmacSha256("s3cret", body)>>)}

\* ------------------------------------------------------- WhatsApp sender

\* What the POST of _send_message can do: a response with a status and a
\* body that is JSON or not, or an exception of the transport.
SendOutcomes ==
    [kind : {"response"}, status_code : {200, 201, 400, 401, 500}, json_ok : BOOLEAN]
    \cup [kind : {"timeout", "connect_error"}, status_code : {0}, json_ok : {FALSE}]

\* A sender that takes every 2xx status for a delivery.
WhatsApp_send_message_Any2xx(is_configured, message, outcome) ==
    IF ~is_configured
    THEN [raised |-> FALSE, attempted |-> FALSE, success |-> TRUE, mock |-> TRUE,
          preview |-> Some(message), error |-> None]
    ELSE IF outcome.kind = "response" /\ outcome.status_code \in 200..299
    THEN [raised |-> FALSE, attempted |-> TRUE, success |-> TRUE, mock |-> FALSE,
          preview |-> None, error |-> None]
    ELSE [raised |-> FALSE, attempted |-> TRUE, success |-> FALSE, mock |-> FALSE,
          preview |-> None, error |-> Some("response.text")]

\* WhatsAppClient._send_message.  attempted says whether a request was made.
WhatsApp_send_message(is_configured, message, outcome) ==
    IF ~is_configured
    THEN [raised |-> FALSE, attempted |-> FALSE, success |-> TRUE, mock |-> TRUE,
          preview |-> Some(message), error |-> None]
    ELSE IF outcome.kind # "response"
    THEN [raised |-> FALSE, attempted |-> TRUE, success |-> FALSE, mock |-> FALSE,
          preview |-> None, error |-> Some(outcome.kind)]
    ELSE IF outcome.status_code = 200
    THEN IF outcome.json_ok
         THEN [raised |-> FALSE, attempted |-> TRUE, success |-> TRUE, mock |-> FALSE,
               preview |-> None, error |-> None]
         ELSE [raised |-> FALSE, attempted |-> TRUE, success |-> FALSE, mock |-> FALSE,
               preview |-> None, error |-> Some("JSONDecodeError")]
    ELSE [raised |-> FALSE, attempted |-> TRUE, success |-> FALSE, mock |-> FALSE,
          preview |-> None, error |-> Some("response.text")]


\* ------------------------------------------------ verification handshake

\* WHATSAPP_VERIFY_TOKEN, at its default.
WHATSAPP_VERIFY_TOKEN == "luxurytravel_webhook_2024"

DigitChars == <<"0", "1", "2", "3", "4", "5", "6", "7", "8", "9">>

RECURSIVE PyStrip(_)
\* str.strip(): the string without its leading and trailing white space.
PyStrip(chars) ==
    IF chars = <<>> THEN <<>>
    ELSE IF IsSpace(chars[1]) THEN PyStrip(Tail(chars))
    ELSE IF IsSpace(chars[Len(chars)]) THEN PyStrip(SubSeq(chars, 1, Len(chars) - 1))
    ELSE chars

RECURSIVE DigitsValue(_)
DigitsValue(digits) ==
    IF digits = <<>> THEN 0
    ELSE 10 * DigitsValue(SubSeq(digits, 1, Len(digits) - 1))
         + (CHOOSE d \in 1..10 : DigitChars[d] = digits[Len(digits)]) - 1

\* int(str): white space around the literal is dropped, a sign may lead, and
\* anything but decimal digits after it raises ValueError.
PyInt(chars) ==
    LET stripped == PyStrip(chars)
        signed   == stripped # <<>> /\ stripped[1] \in {"+", "-"}
        digits   == IF signed THEN Tail(stripped) ELSE stripped
    IN  IF digits = <<>> \/ \E i \in 1..Len(digits) : ~(\E d \in 1..10 : DigitChars[d] = digits[i])
        THEN [raised |-> TRUE, value |-> 0]
        ELSE [raised |-> FALSE,
              value  |-> IF signed /\ stripped[1] = "-" THEN -DigitsValue(digits)
                         ELSE DigitsValue(digits)]

RECURSIVE NatToChars(_)
NatToChars(n) ==
    IF n < 10 THEN <<DigitChars[n + 1]>>
    ELSE NatToChars(n \div 10) \o <<DigitChars[(n % 10) + 1]>>

\* The JSON text of an integer return value.
JsonOfInt(n) == IF n < 0 THEN <<"-">> \o NatToChars(-n) ELSE NatToChars(n)

\* GET /webhook/whatsapp.  A query parameter that is absent is None.  The
\* ValueError of int() is not handled, so the framework answers 500.
whatsapp_verify(hub_mode, hub_verify_token, hub_challenge) ==
    IF hub_mode = Some("subscribe") /\ hub_verify_token = Some(WHATSAPP_VERIFY_TOKEN)
    THEN IF hub_challenge # None /\ hub_challenge[1] # <<>>
         THEN LET n == PyInt(hub_challenge[1])
              IN  IF n.raised
                  THEN [status |-> 500, exc |-> "ValueError", body |-> <<>>]
                  ELSE [status |-> 200, exc |-> "", body |-> JsonOfInt(n.value)]
         ELSE [status |-> 200, exc |-> "", body |-> <<"\"", "O", "K", "\"">>]
    ELSE [status |-> 403, exc |-> "HTTPException", body |-> <<>>]

\* ---------------------------------------------------- WhatsApp formatter

\* A key of a result mapping: not in the mapping, mapped to None, or mapped
\* to a value.
Absent == <<"absent">>

Null == <<"null">>

Val(v) == <<"value", v>>

\* dict.get(key, default): the entry, or the default when the key is absent.
PyGet(entry, default) == IF entry = Absent THEN Val(default) ELSE entry

\* An f-string field of a value that is a string: None prints as "None".
FStr(x) == IF x = Null THEN "None" ELSE x[2]

\* The same for a value held as a sequence of characters.
FStrChars(x) == IF x = Null THEN <<"N", "o", "n", "e">> ELSE x[2]

\* The three reply buttons of a card: ids are f-strings, kept as their parts.
FlightCardButtons(flight) ==
    <<<<"book_", "flight_", FStr(PyGet(flight.id, "unknown"))>>,
      <<"details_", "flight_", FStr(PyGet(flight.id, "unknown"))>>,
      <<"cart_", "flight_", FStr(PyGet(flight.id, "unknown"))>>>>

HotelCardButtons(hotel) ==
    <<<<"book_", "hotel_", FStr(PyGet(hotel.id, "unknown"))>>,
      <<"details_", "hotel_", FStr(PyGet(hotel.id, "unknown"))>>,
      <<"cart_", "hotel_", FStr(PyGet(hotel.id, "unknown"))>>>>

RestaurantCardButtons(restaurant) ==
    <<<<"reserve_", FStr(PyGet(restaurant.id, "unknown"))>>,
      <<"menu_", FStr(PyGet(restaurant.id, "unknown"))>>,
      <<"cart_", "restaurant_", FStr(PyGet(restaurant.id, "unknown"))>>>>

\* The message of send_flight_card: every field goes through an f-string.
FlightCardMessage(flight) ==
    [raised |-> FALSE, exc |-> "",
     message |-> [type |-> "button", buttons |-> FlightCardButtons(flight), rows |-> <<>>]]

\* The message of send_hotel_card.  The star string, '*' * hotel.get('stars', 5), raises
\* TypeError when stars is None.
HotelCardMessage(hotel) ==
    IF PyGet(hotel.stars, 5) = Null
    THEN [raised |-> TRUE, exc |-> "TypeError", message |-> <<>>]
    ELSE [raised |-> FALSE, exc |-> "",
          message |-> [type |-> "button", buttons |-> HotelCardButtons(hotel), rows |-> <<>>]]

\* The message of send_restaurant_card.  michelin > 0 raises TypeError when
\* michelinStars is None; availableTimes is only read when it is truthy.
RestaurantCardMessage(restaurant) ==
    IF PyGet(restaurant.michelinStars, 0) = Null
    THEN [raised |-> TRUE, exc |-> "TypeError", message |-> <<>>]
    ELSE [raised |-> FALSE, exc |-> "",
          message |-> [type |-> "button", buttons |-> RestaurantCardButtons(restaurant),
                       rows |-> <<>>]]

\* "for item in items[:10]".
ListRowCap == 10

\* "item.get('name', '')[:24]".
ListTitleLen == 24

\* The row title of send_travel_list for one item.
ListRowTitle(item, item_type) ==
    IF item_type = "flight"
    THEN FStrChars(PyGet(item.route, <<>>)) \o <<" ", "-", " ">>
         \o FStrChars(PyGet(item.price, <<>>))
    ELSE PySliceTo(PyGet(item.name, <<>>)[2], ListTitleLen)

\* Whether building the row of an item raises: None[:24] is a TypeError.
ListRowRaises(item, item_type) ==
    item_type \in {"hotel", "restaurant"} /\ PyGet(item.name, <<>>) = Null

\* The rows of send_travel_list: one per item of items[:10], for the three
\* item types the loop knows.
ListRows(items, item_type) ==
    IF item_type \notin {"flight", "hotel", "restaurant"} THEN <<>>
    ELSE LET shown == PySliceTo(items, ListRowCap)
         IN  [i \in 1..Len(shown) |->
                [id |-> <<"select_", FStr(PyGet(shown[i].id, ""))>>,
                 title |-> ListRowTitle(shown[i], item_type)]]

\* The message of send_travel_list.
TravelListMessage(items, item_type) ==
    IF \E i \in 1..Len(PySliceTo(items, ListRowCap)) : ListRowRaises(items[i], item_type)
    THEN [raised |-> TRUE, exc |-> "TypeError", message |-> <<>>]
    ELSE [raised |-> FALSE, exc |-> "",
          message |-> [type |-> "list", buttons |-> <<>>, rows |-> ListRows(items, item_type)]]

\* A formatter followed by "return await self._send_message(message)".
SendFormatted(built, is_configured, outcome) ==
    IF built.raised
    THEN [raised |-> TRUE, exc |-> built.exc, message |-> <<>>, result |-> <<>>]
    ELSE [raised |-> FALSE, exc |-> "", message |-> built.message,
          result |-> WhatsApp_send_message(is_configured, built.message, outcome)]

send_flight_card(flight, is_configured, outcome) ==
    SendFormatted(FlightCardMessage(flight), is_configured, outcome)

send_hotel_card(hotel, is_configured, outcome) ==
    SendFormatted(HotelCardMessage(hotel), is_configured, outcome)

send_restaurant_card(restaurant, is_configured, outcome) ==
    SendFormatted(RestaurantCardMessage(restaurant), is_configured, outcome)

send_travel_list(items, item_type, is_configured, outcome) ==
    SendFormatted(TravelListMessage(items, item_type), is_configured, outcome)
\* -------------------------------------------------------------- actions

FlightSearchParams ==
    {[origin |-> r[1], destination |-> r[2], cabin_class |-> c, max_results |-> m] :
        r \in {<<"JFK", "CDG">>, <<"AUS", "YYZ">>}, c \in CabinClass, m \in {-1, 0, 1, 10}}

\* A call of FlightWidget.search_flights.  The random draw and the route
\* table only matter on the mock path, so with deals from the provider the
\* draw is fixed to 0 and the route to the first one.
SearchFlights ==
    /\ op = "idle"
    /\ UNCHANGED clientVars
    /\ \E params \in FlightSearchParams, outcome \in FlightProviderOutcomes, jitter \in Jitters :
        /\ (FlightProviderDeals(params, outcome).deals # <<>>
               => jitter = 0 /\ params.origin = "JFK")
        /\ op' = "search_flights"
        /\ req' = [params |-> params, outcome |-> outcome, jitter |-> jitter]
        /\ resp' = FlightWidget_search_flights(params, outcome, jitter)


\* Longest enumerated tail of a provider batch of hotel offers.
MaxHotelOffers == 2

\* Number of further hotels, all with different names, that a long provider
\* batch starts with.
HotelFillers == 10

FillerOffer(i) ==
    [kind |-> "ok", name |-> Some(<<"H", "o", "t", "e", "l", " ">> \o <<UpperChars[i]>>),
     ppn |-> 460, rating |-> 45,
     hotelId |-> <<"F1", "F2", "F3", "F4", "F5", "F6", "F7", "F8", "F9", "F10", "F11", "F12">>[i]]

\* The offers that follow the fillers of a long batch: the two spellings of
\* one name at every rate.
RepeatedNameOffers == {o \in HotelOffers : o.kind = "ok" /\ o.name[1] \in {NameRitz, NameRitzUpper}}

\* What the provider call can do: no provider, a failure, a short batch of any
\* offers, or a long batch of fillers followed by offers of one repeated name.
HotelProviderOutcomes ==
    [kind : {"unconfigured"} \cup ProviderFailures, data : {<<>>}]
    \cup {[kind |-> "ok", data |-> tail] : tail \in SeqsUpTo(HotelOffers, MaxHotelOffers)}
    \cup {[kind |-> "ok", data |-> [i \in 1..HotelFillers |-> FillerOffer(i)] \o tail] :
            tail \in SeqsUpTo(RepeatedNameOffers, MaxHotelOffers)}

HotelSearchParams ==
    {[location |-> l, check_in |-> st[1], check_out |-> st[2]] :
        l \in {"PAR", "Unknownsville"}, st \in {<<Some(10), Some(13)>>, <<None, Some(13)>>}}

\* A call of HotelWidget.search_hotels.  The location only selects the mock
\* table, so with results from the provider it is fixed to the first one.
SearchHotels ==
    /\ op = "idle"
    /\ UNCHANGED clientVars
    /\ \E params \in HotelSearchParams, outcome \in HotelProviderOutcomes :
        /\ (HotelProviderResults(params, outcome).results # <<>> => params.location = "PAR")
        /\ op' = "search_hotels"
        /\ req' = [params |-> params, outcome |-> outcome]
        /\ resp' = HotelWidget_search_hotels(params, outcome)

\* Longest enumerated batch of curated records.
MaxCurated == 1

\* A call of HotelWidget._parse_curated_results.
ParseCurated ==
    /\ op = "idle"
    /\ UNCHANGED clientVars
    /\ \E params \in HotelSearchParams, results \in SeqsUpTo(CuratedRecords, MaxCurated) :
        /\ params.location = "PAR"
        /\ op' = "parse_curated"
        /\ req' = [params |-> params, results |-> results]
        /\ resp' = [raised |-> FALSE, exc |-> "", mocked |-> FALSE,
                    items |-> Hotel_parse_curated_results(results, params)]

RestaurantSearchParams == [location : {"Paris", "New York", "Miami", "Atlantis"}, date : {Some(10), None}]

\* A call of RestaurantWidget.search_restaurants.
SearchRestaurants ==
    /\ op = "idle"
    /\ UNCHANGED clientVars
    /\ \E params \in RestaurantSearchParams, draws \in [1..3 -> TimeDraws] :
        /\ op' = "search_restaurants"
        /\ req' = [params |-> params, draws |-> draws]
        /\ resp' = RestaurantWidget_search_restaurants(params, draws)

\* max_deals, max_hotels, max_restaurants of a widget request.
MaxCounts == {-5, -2, 0, 1, 3}

\* What the provider does on the searches of one flight widget request:
\* no provider at all, or per route a timeout or one offer.
WidgetFlightOutcomes ==
    {[i \in 1..5 |-> [kind |-> "unconfigured", data |-> <<>>]]}
    \cup [1..5 -> {[kind |-> "timeout", data |-> <<>>],
                   [kind |-> "ok", data |-> <<[kind |-> "ok", total |-> 2500, nseg |-> 1, id |-> "7"]>>]}]

\* The same for the hotel widget: per destination a timeout, one offer, or
\* one offer whose hotel name is null.
WidgetHotelOutcomes ==
    {[i \in 1..5 |-> [kind |-> "unconfigured", data |-> <<>>]]}
    \cup [1..5 -> {[kind |-> "timeout", data |-> <<>>],
                   [kind |-> "ok", data |-> <<[kind |-> "ok", name |-> Some(NameRitz), ppn |-> 460,
                                               rating |-> 45, hotelId |-> "H2"]>>],
                   [kind |-> "ok", data |-> <<[kind |-> "null_name", name |-> None, ppn |-> 460,
                                               rating |-> 45, hotelId |-> "H4"]>>]}]

\* A call of FlightWidget.get_widget_data.
FlightWidgetData ==
    /\ op = "idle"
    /\ UNCHANGED clientVars
    /\ \E max_deals \in MaxCounts, outcomes \in WidgetFlightOutcomes, jitter \in Jitters :
        /\ (outcomes[1].kind # "unconfigured" => jitter = 0)
        /\ op' = "flight_widget_data"
        /\ req' = [max_count |-> max_deals, outcomes |-> outcomes, jitter |-> jitter]
        /\ resp' = Flight_get_widget_data(max_deals, outcomes, jitter)

\* A call of HotelWidget.get_widget_data.
HotelWidgetData ==
    /\ op = "idle"
    /\ UNCHANGED clientVars
    /\ \E max_hotels \in MaxCounts, outcomes \in WidgetHotelOutcomes :
        /\ op' = "hotel_widget_data"
        /\ req' = [max_count |-> max_hotels, outcomes |-> outcomes]
        /\ resp' = Hotel_get_widget_data(max_hotels, outcomes)

\* A call of RestaurantWidget.get_widget_data.
RestaurantWidgetData ==
    /\ op = "idle"
    /\ UNCHANGED clientVars
    /\ \E location \in {None, Some(""), Some("Miami"), Some("Atlantis")},
          max_restaurants \in MaxCounts, draws \in [1..3 -> TimeDraws] :
        /\ op' = "restaurant_widget_data"
        /\ req' = [max_count |-> max_restaurants, location |-> location, draws |-> draws]
        /\ resp' = Restaurant_get_widget_data(location, max_restaurants, draws)

\* A call of the mock generator of one domain, as the search makes it when the
\* provider gave nothing: FlightWidget._get_mock_deals,
\* HotelWidget._get_mock_hotels or RestaurantWidget._get_mock_restaurants.
MockGenerator ==
    /\ op = "idle"
    /\ UNCHANGED clientVars
    /\ \/ \E params \in FlightSearchParams, jitter \in Jitters :
            /\ op' = "mock_generator"
            /\ req' = [domain |-> "flights", params |-> params, jitter |-> jitter]
            /\ resp' = [raised |-> FALSE, exc |-> "", mocked |-> TRUE,
                        items |-> Flight_get_mock_deals(params, jitter)]
       \/ \E params \in HotelSearchParams :
            /\ op' = "mock_generator"
            /\ req' = [domain |-> "hotels", params |-> params]
            /\ resp' = [raised |-> FALSE, exc |-> "", mocked |-> TRUE,
                        items |-> Hotel_get_mock_hotels(params)]
       \/ \E params \in RestaurantSearchParams, draws \in [1..3 -> TimeDraws] :
            /\ op' = "mock_generator"
            /\ req' = [domain |-> "restaurants", params |-> params, draws |-> draws]
            /\ resp' = [raised |-> FALSE, exc |-> "", mocked |-> TRUE,
                        items |-> Restaurant_get_mock_restaurants(params, draws)]

\* Two calls of the mock generator of one domain with the same parameters,
\* each with its own random draws.
MockGeneratorTwice ==
    /\ op = "idle"
    /\ UNCHANGED clientVars
    /\ \/ \E params \in FlightSearchParams, jitter \in Jitters, jitter2 \in Jitters :
            /\ params.max_results = 10
            /\ op' = "mock_generator_twice"
            /\ req' = [domain |-> "flights", params |-> params,
                       jitter |-> jitter, jitter2 |-> jitter2]
            /\ resp' = [raised |-> FALSE,
                        first  |-> Flight_get_mock_deals(params, jitter),
                        second |-> Flight_get_mock_deals(params, jitter2)]
       \/ \E params \in HotelSearchParams :
            /\ op' = "mock_generator_twice"
            /\ req' = [domain |-> "hotels", params |-> params]
            /\ resp' = [raised |-> FALSE,
                        first  |-> Hotel_get_mock_hotels(params),
                        second |-> Hotel_get_mock_hotels(params)]
       \/ \E params \in RestaurantSearchParams, draws \in [1..3 -> TimeDraws],
             draws2 \in [1..3 -> TimeDraws] :
            /\ params.date = None
            /\ op' = "mock_generator_twice"
            /\ req' = [domain |-> "restaurants", params |-> params,
                       draws |-> draws, draws2 |-> draws2]
            /\ resp' = [raised |-> FALSE,
                        first  |-> Restaurant_get_mock_restaurants(params, draws),
                        second |-> Restaurant_get_mock_restaurants(params, draws2)]

\* A call of _calculate_deal_score: of the flight widget, with prices at and
\* just above every threshold and stop counts from below zero to more than
\* the score can absorb, or of the hotel widget, with rates at and just above
\* every tier and ratings on both sides of 4.0 and 5.0.
CalculateDealScore ==
    /\ op = "idle"
    /\ UNCHANGED clientVars
    /\ \/ \E cabin \in CabinClass, stops \in -4..20,
             price \in {0} \cup UNION {{FlightThresholds(c).excellent,
                                        FlightThresholds(c).good,
                                        FlightThresholds(c).average} : c \in CabinClass},
             over \in {0, 1} :
            /\ op' = "calculate_deal_score"
            /\ req' = [domain |-> "flights", price |-> price + over, cabin |-> cabin,
                       stops |-> stops]
            /\ resp' = [raised |-> FALSE,
                        score |-> Flight_calculate_deal_score(price + over, cabin, stops)]
       \/ \E price \in {0, 300, 301, 500, 501, 800, 801, 1200},
             rating \in {-10, 0, 35, 39, 40, 41, 44, 45, 46, 49, 50, 51, 55, 60} :
            /\ op' = "calculate_deal_score"
            /\ req' = [domain |-> "hotels", price |-> price, rating |-> rating]
            /\ resp' = [raised |-> FALSE,
                        score |-> Hotel_calculate_deal_score(price, rating)]

\* A call of _parse_amadeus_results of the flight or of the hotel widget on a
\* provider batch.
ParseAmadeus ==
    /\ op = "idle"
    /\ UNCHANGED clientVars
    /\ \/ \E results \in SeqsUpTo(FlightOffers, MaxOffers), cabin \in {"ECONOMY", "BUSINESS"} :
            LET params == [origin |-> "JFK", destination |-> "CDG", cabin_class |-> cabin,
                           max_results |-> 10]
            IN  /\ op' = "parse_amadeus"
                /\ req' = [domain |-> "flights", params |-> params, results |-> results]
                /\ resp' = [raised |-> FALSE,
                            items |-> Flight_parse_amadeus_results(results, params)]
       \/ \E results \in SeqsUpTo(HotelOffers, MaxHotelOffers) :
            LET params == [location |-> "PAR", check_in |-> Some(10), check_out |-> Some(13)]
            IN  /\ op' = "parse_amadeus"
                /\ req' = [domain |-> "hotels", params |-> params, results |-> results]
                /\ resp' = [raised |-> FALSE,
                            items |-> Hotel_parse_amadeus_results(results, params)]

\* Requests to the search routes: an enum string (a member in another case,
\* a member, no member) and a date that parses or does not.
HttpSearchRequests ==
    [domain : {"flights"}, enum : {"BUSINESS", "business", "Luxury"}, date : {Some(10), None}]
    \cup [domain : {"hotels"}, enum : {"luxury", "LUXURY", "Palace"}, date : {Some(10), None}]
    \cup [domain : {"restaurants"}, enum : {"all", "ALL", "French", "Thai"}, date : {Some(10), None}]

\* A POST to one of the three search routes.
HttpSearch ==
    /\ op = "idle"
    /\ UNCHANGED clientVars
    /\ \E request \in HttpSearchRequests, outcome \in [kind : {"unconfigured", "timeout"}, data : {<<>>}] :
        /\ (request.domain = "restaurants" => outcome.kind = "unconfigured")
        /\ op' = "http_search"
        /\ req' = [request |-> request, outcome |-> outcome]
        /\ resp' =
            CASE request.domain = "flights" ->
                    HttpRoute(search_flights_tool(
                        [origin |-> "JFK", destination |-> "CDG",
                         departure_date |-> request.date,
                         cabin_class |-> request.enum, max_results |-> 10],
                        outcome, 0))
              [] request.domain = "hotels" ->
                    HttpRoute(search_hotels_tool(
                        [location |-> "PAR", check_in |-> request.date,
                         check_out |-> Some(13), category |-> request.enum],
                        outcome))
              [] OTHER ->
                    HttpRoute(search_restaurants_tool(
                        [location |-> "Paris", date |-> request.date,
                         cuisine |-> request.enum],
                        <<CHOOSE d \in TimeDraws : TRUE, CHOOSE d \in TimeDraws : TRUE,
                          CHOOSE d \in TimeDraws : TRUE>>))

\* A POST to /webhook/whatsapp.
WebhookPost ==
    /\ op = "idle"
    /\ UNCHANGED clientVars
    /\ \E app_secret \in {"", "s3cret"}, body \in WebhookBodies :
        \E signature \in WebhookSignatures(body) :
            /\ op' = "whatsapp_incoming"
            /\ req' = [app_secret |-> app_secret, signature |-> signature, body |-> body]
            /\ resp' = whatsapp_incoming(app_secret, signature, body)

\* A call of WhatsAppClient._send_message.  Without credentials there is no
\* transport outcome to choose.
SendMessage ==
    /\ op = "idle"
    /\ UNCHANGED clientVars
    /\ \E is_configured \in BOOLEAN, message \in {"flight_card", "hotel_card", "restaurant_card", "list", "cart"}, outcome \in SendOutcomes :
        /\ (~is_configured => outcome = [kind |-> "timeout", status_code |-> 0, json_ok |-> FALSE])
        /\ op' = "send_message"
        /\ req' = [is_configured |-> is_configured, message |-> message, outcome |-> outcome]
        /\ resp' = WhatsApp_send_message(is_configured, message, outcome)

\* Challenges: the number Meta sends, a number with leading zeros, a padded
\* one, a negative one, one that is not a number, the empty string, and none.
HubChallenges ==
    {None,
     Some(<<>>),
     Some(<<"1", "1", "5", "8", "2", "0", "1", "4", "4", "4">>),
     Some(<<"0", "0", "7">>),
     Some(<<" ", "4", "2">>),
     Some(<<"-", "5">>),
     Some(<<"a", "b", "c">>)}

\* A GET on /webhook/whatsapp.
WebhookVerify ==
    /\ op = "idle"
    /\ UNCHANGED clientVars
    /\ \E hub_mode \in {None, Some("subscribe"), Some("unsubscribe")},
          hub_verify_token \in {None, Some(WHATSAPP_VERIFY_TOKEN), Some("guess")},
          hub_challenge \in HubChallenges :
        /\ op' = "whatsapp_verify"
        /\ req' = [hub_mode |-> hub_mode, hub_verify_token |-> hub_verify_token,
                   hub_challenge |-> hub_challenge]
        /\ resp' = whatsapp_verify(hub_mode, hub_verify_token, hub_challenge)

\* Result ids as the formatter receives them.
CardIds == {Absent, Null, Val("amadeus_7")}

RouteShort == <<"J", "F", "K", " ", "-", ">", " ", "C", "D", "G">>

RouteLong == <<"N", "e", "w", " ", "Y", "o", "r", "k", " ", "-", ">", " ", "P", "a", "r", "i", "s">>

PriceText == <<"$", "1", ",", "8", "4", "7">>

\* Result mappings with any of the keys the formatters read missing or None.
FlightCardItems ==
    [id : CardIds, route : {Absent, Null, Val(RouteShort), Val(RouteLong)},
     price : {Absent, Null, Val(PriceText)}]

HotelCardItems ==
    [id : CardIds, name : {Absent, Null, Val(NameRitz), Val(NameGeorgeV)},
     stars : {Absent, Null, Val(5)}]

RestaurantCardItems ==
    [id : CardIds, name : {Absent, Null, Val(NameRitz), Val(NameGeorgeV)},
     michelinStars : {Absent, Null, Val(0), Val(2)},
     availableTimes : {Absent, Null, Val(<<"18:00", "19:00", "20:00", "21:00">>)}]

\* Credentials and transport of the send that follows the formatting.
SendConfigs ==
    {[is_configured |-> FALSE,
      outcome |-> [kind |-> "timeout", status_code |-> 0, json_ok |-> FALSE]],
     [is_configured |-> TRUE,
      outcome |-> [kind |-> "response", status_code |-> 200, json_ok |-> TRUE]],
     [is_configured |-> TRUE,
      outcome |-> [kind |-> "timeout", status_code |-> 0, json_ok |-> FALSE]]}

\* A call of send_flight_card, send_hotel_card or send_restaurant_card.
SendCard ==
    /\ op = "idle"
    /\ UNCHANGED clientVars
    /\ \E kind \in {"flight", "hotel", "restaurant"}, cfg \in SendConfigs :
        \E item \in (IF kind = "flight" THEN FlightCardItems
                     ELSE IF kind = "hotel" THEN HotelCardItems
                     ELSE RestaurantCardItems) :
            /\ op' = "send_card"
            /\ req' = [kind |-> kind, item |-> item, cfg |-> cfg]
            /\ resp' = IF kind = "flight"
                       THEN send_flight_card(item, cfg.is_configured, cfg.outcome)
                       ELSE IF kind = "hotel"
                       THEN send_hotel_card(item, cfg.is_configured, cfg.outcome)
                       ELSE send_restaurant_card(item, cfg.is_configured, cfg.outcome)

\* Longest enumerated tail of an item list.
MaxListItems == 1

\* Number of further items that a long item list starts with.
ListFillers == 10

\* Items of a list message, per item type.
ListItems(item_type) ==
    IF item_type = "flight"
    THEN [id : {Absent, Val("amadeus_7")},
          route : {Absent, Null, Val(RouteShort), Val(RouteLong)},
          price : {Absent, Val(PriceText)}]
    ELSE [id : {Absent, Val("amadeus_H1")},
          name : {Absent, Null, Val(NameRitz), Val(NameGeorgeV)}]

ListFiller(item_type) ==
    IF item_type = "flight"
    THEN [id |-> Val("amadeus_1"), route |-> Val(RouteShort), price |-> Val(PriceText)]
    ELSE [id |-> Val("amadeus_H0"), name |-> Val(NameGstaad)]

\* A call of send_travel_list; "package" is an item type the loop skips.
SendList ==
    /\ op = "idle"
    /\ UNCHANGED clientVars
    /\ \E item_type \in {"flight", "hotel", "restaurant", "package"}, cfg \in SendConfigs,
          n \in {0, ListFillers} :
        \E tail \in SeqsUpTo(ListItems(item_type), MaxListItems) :
            LET items == [i \in 1..n |-> ListFiller(item_type)] \o tail
            IN  /\ op' = "send_list"
                /\ req' = [item_type |-> item_type, items |-> items, cfg |-> cfg]
                /\ resp' = send_travel_list(items, item_type, cfg.is_configured, cfg.outcome)

\* ------------------------------------------------ MCP server (JSON-RPC)

\* MCPServer._call_tool on the search tools, with no provider configured:
\* the tool's exception, if any, is not caught here.
MCPServer_call_tool(tool_name, arguments) ==
    LET unconfigured == [kind |-> "unconfigured", data |-> <<>>]
        Result(type, r) == [raised |-> r.raised, exc |-> r.exc,
                            result |-> [type |-> type, count |-> r.count]]
    IN  CASE tool_name = "search_flights" ->
                Result("flight_results",
                       search_flights_tool(
                           [origin |-> "JFK", destination |-> "CDG", departure_date |-> None,
                            cabin_class |-> arguments.cabin_class, max_results |-> 10],
                           unconfigured, 0))
          [] tool_name = "search_hotels" ->
                Result("hotel_results",
                       search_hotels_tool(
                           [location |-> "PAR", check_in |-> Some(10), check_out |-> Some(13),
                            category |-> arguments.category],
                           unconfigured))
          [] OTHER ->
                [raised |-> FALSE, exc |-> "", result |-> [type |-> "error", count |-> 0]]

\* MCPServer.handle_request: a response object, None for the notification,
\* or the exception of the tool.
MCPServer_handle_request(request) ==
    CASE request.method \in {"initialize", "tools/list"} ->
            [raised |-> FALSE, exc |-> "",
             response |-> Some([id |-> request.id, kind |-> "result"])]
      [] request.method = "tools/call" ->
            LET Handled(r) ==
                    IF r.raised THEN [raised |-> TRUE, exc |-> r.exc, response |-> None]
                    ELSE [raised |-> FALSE, exc |-> "",
                          response |-> Some([id |-> request.id, kind |-> "result"])]
            IN  Handled(MCPServer_call_tool(request.name, request.arguments))
      [] request.method = "notifications/initialized" ->
            [raised |-> FALSE, exc |-> "", response |-> None]
      [] OTHER ->
            [raised |-> FALSE, exc |-> "",
             response |-> Some([id |-> request.id, kind |-> "error"])]

\* One pass of the loop of main() on a line of input: the lines printed to
\* stdout, what went to stderr, and whether the loop goes on to the next line.
mcp_main_pass(line) ==
    CASE line.kind = "blank" -> [printed |-> <<>>, stderr |-> "", serving |-> TRUE]
      [] line.kind = "not_json" ->
            [printed |-> <<>>, stderr |-> "JSONDecodeError", serving |-> TRUE]
      [] OTHER ->
            LET Pass(h) ==
                    IF h.raised THEN [printed |-> <<>>, stderr |-> h.exc, serving |-> TRUE]
                    ELSE IF h.response # None
                    THEN [printed |-> <<h.response[1]>>, stderr |-> "", serving |-> TRUE]
                    ELSE [printed |-> <<>>, stderr |-> "", serving |-> TRUE]
            IN  Pass(MCPServer_handle_request(line.request))

\* A line arrives on stdin: blank, not JSON, or a request (a tool call names
\* a search tool with an enum argument that is a member or is not, or a tool
\* that does not exist).
McpLine ==
    /\ op = "idle"
    /\ UNCHANGED clientVars
    /\ \E line \in
            [kind : {"blank", "not_json"}, request : {None}]
            \cup [kind : {"request"},
                  request : [method : {"initialize", "tools/list", "notifications/initialized",
                                       "resources/list"},
                             id : {1, 2}, name : {""}, arguments : {None}]
                            \cup [method : {"tools/call"}, id : {1, 2},
                                  name : {"search_flights"},
                                  arguments : [cabin_class : {"BUSINESS", "business", "Luxury"}]]
                            \cup [method : {"tools/call"}, id : {1, 2},
                                  name : {"search_hotels"},
                                  arguments : [category : {"luxury", "Palace"}]]
                            \cup [method : {"tools/call"}, id : {1, 2},
                                  name : {"book_yacht"}, arguments : {None}]] :
        /\ op' = "mcp_line"
        /\ req' = [line |-> line]
        /\ resp' = mcp_main_pass(line)

\* ------------------------------------------- provider client: token cache

\* timedelta(seconds=data["expires_in"] - 60): the margin, in seconds.
RefreshMargin == 60

\* httpx.AsyncClient(timeout=30.0): a response that has been sent is read
\* within this many seconds, or the request fails.
ReadTimeout == 30

\* Seconds by which the clock advances in one step.
TickSeconds == 30

\* The clock stops here.
MaxTime == 180

\* Token requests that the provider is sent at most.
MaxTokenRequests == 3

\* The coroutines that call search_flights on the one client.
Tasks == {1, 2}

IdleTask == [pc |-> "idle", token |-> None, expires_in |-> 0, issued_at |-> 0]

\* The stored expiry with the margin left out.
TokenExpiryOf_NoMargin(at, expires_in) == at + expires_in

\* self._token_expiry = datetime.now() + timedelta(seconds=expires_in - 60)
TokenExpiryOf(at, expires_in) == at + expires_in - RefreshMargin

\* The test of _get_token: a token and an expiry are stored and the clock is
\* before the stored expiry.
CachedTokenValid ==
    /\ cache.access_token # None
    /\ cache.token_expiry # None
    /\ now < cache.token_expiry[1]

\* search_flights is called and runs to its first await: _get_token either
\* returns the cached token, and the search request goes out, or posts a
\* token request.
SearchCall(t) ==
    /\ UNCHANGED <<op, req, resp>>
    /\ tasks[t].pc = "idle"
    /\ IF CachedTokenValid
       THEN /\ tasks' = [tasks EXCEPT ![t] = [IdleTask EXCEPT !.pc = "await_search",
                                                           !.token = cache.access_token]]
            /\ last' = [kind |-> "cached", task |-> t, at |-> now,
                        token |-> cache.access_token, held |-> Some(cache)]
            /\ UNCHANGED <<now, cache, provider>>
       ELSE /\ provider.requests < MaxTokenRequests
            /\ tasks' = [tasks EXCEPT ![t] = [IdleTask EXCEPT !.pc = "await_token"]]
            /\ provider' = [provider EXCEPT !.requests = @ + 1]
            /\ last' = [kind |-> "request", task |-> t, at |-> now,
                        token |-> None, held |-> Some(cache)]
            /\ UNCHANGED <<now, cache>>

\* The provider answers a token request: the token is valid for expires_in
\* seconds from now, and the response is on its way.
ProviderIssues(t) ==
    /\ UNCHANGED <<op, req, resp>>
    /\ tasks[t].pc = "await_token"
    /\ \E expires_in \in {60, 120} :
        /\ provider' = [provider EXCEPT !.issued = Append(@, now + expires_in)]
        /\ tasks' = [tasks EXCEPT ![t] = [pc |-> "token_in_flight",
                                          token |-> Some(Len(provider.issued) + 1),
                                          expires_in |-> expires_in,
                                          issued_at |-> now]]
    /\ UNCHANGED <<now, cache, last>>

\* The token request fails (an error status, or a timeout): the exception
\* leaves _get_token and search_flights, and the cache is as it was.
TokenRequestFails(t) ==
    /\ UNCHANGED <<op, req, resp>>
    /\ tasks[t].pc \in {"await_token", "token_in_flight"}
    /\ tasks' = [tasks EXCEPT ![t] = IdleTask]
    /\ last' = [kind |-> "failed", task |-> t, at |-> now, token |-> None, held |-> Some(cache)]
    /\ UNCHANGED <<now, cache, provider>>

\* The token response arrives: _get_token stores the token and its expiry and
\* returns the token, and the search request goes out.
TokenResponse(t) ==
    /\ UNCHANGED <<op, req, resp>>
    /\ tasks[t].pc = "token_in_flight"
    /\ cache' = [access_token |-> tasks[t].token,
                 token_expiry |-> Some(TokenExpiryOf(now, tasks[t].expires_in))]
    /\ tasks' = [tasks EXCEPT ![t] = [IdleTask EXCEPT !.pc = "await_search",
                                                        !.token = tasks[t].token]]
    /\ last' = [kind |-> "fresh", task |-> t, at |-> now,
                token |-> tasks[t].token, held |-> Some(cache)]
    /\ UNCHANGED <<now, provider>>

\* The search response arrives and search_flights returns.
SearchReturns(t) ==
    /\ UNCHANGED <<op, req, resp>>
    /\ tasks[t].pc = "await_search"
    /\ tasks' = [tasks EXCEPT ![t] = IdleTask]
    /\ UNCHANGED <<now, cache, provider, last>>

\* Time passes.  A token response on its way is read within the timeout.
Tick ==
    /\ UNCHANGED <<op, req, resp>>
    /\ now + TickSeconds <= MaxTime
    /\ \A t \in Tasks :
          tasks[t].pc = "token_in_flight" => now + TickSeconds - tasks[t].issued_at <= ReadTimeout
    /\ now' = now + TickSeconds
    /\ UNCHANGED <<cache, tasks, provider, last>>
\* The response has been delivered: the server holds nothing of the request.
Done ==
    /\ op # "idle"
    /\ UNCHANGED clientVars
    /\ op' = "idle"
    /\ req' = <<>>
    /\ resp' = <<>>

Init ==
    /\ op = "idle"
    /\ req = <<>>
    /\ resp = <<>>
    /\ now = 0
    /\ cache = [access_token |-> None, token_expiry |-> None]
    /\ tasks = [t \in Tasks |-> IdleTask]
    /\ provider = [issued |-> <<>>, requests |-> 0]
    /\ last = [kind |-> "none", task |-> 0, at |-> 0, token |-> None, held |-> None]

Next ==
    \/ SearchFlights
    \/ SearchHotels
    \/ ParseCurated
    \/ SearchRestaurants
    \/ FlightWidgetData
    \/ HotelWidgetData
    \/ RestaurantWidgetData
    \/ ParseAmadeus
    \/ CalculateDealScore
    \/ MockGenerator
    \/ MockGeneratorTwice
    \/ HttpSearch
    \/ WebhookVerify
    \/ WebhookPost
    \/ McpLine
    \/ SendCard
    \/ SendList
    \/ SendMessage
    \/ Done

Spec == Init /\ [][Next]_vars

\* The provider client alone: search calls on one client instance, suspended
\* at their awaits, while the clock runs.
TokenNext ==
    \/ \E t \in Tasks : SearchCall(t)
    \/ \E t \in Tasks : ProviderIssues(t)
    \/ \E t \in Tasks : TokenRequestFails(t)
    \/ \E t \in Tasks : TokenResponse(t)
    \/ \E t \in Tasks : SearchReturns(t)
    \/ Tick

TokenSpec == Init /\ [][TokenNext]_vars


\* --------------------------------------------------------------- claims

\* The operations whose results carry a deal score.
ScoredOps == {"search_flights", "search_hotels", "parse_curated"}

\* The results of the operation just served, when it builds scored results.
ScoredItems == IF op \in ScoredOps THEN resp.items ELSE <<>>

\* C1: every FlightDeal and HotelResult that any path constructs (Amadeus
\* normalisation, curated-hotel normalisation, mock generation) has a deal
\* score between 1 and 10.
C1_DealScoreInRange ==
    \A i \in 1..Len(ScoredItems) :
        ScoredItems[i].deal_score >= 1 /\ ScoredItems[i].deal_score <= 10

\* C2: for every normalised result (Amadeus flight, Amadeus hotel, curated
\* hotel), savings_percent is set if and only if original_price is set, if
\* and only if the deal score is at least 7.
C2_SavingsIffScore ==
    (op \in ScoredOps /\ ~resp.mocked) =>
        \A i \in 1..Len(resp.items) :
            /\ (resp.items[i].savings_percent # None) <=> (resp.items[i].original_price # None)
            /\ (resp.items[i].original_price # None) <=> (resp.items[i].deal_score >= 7)

\* The urgency table of the specification.
UrgencyStep(score) ==
    IF score >= 9 THEN "critical"
    ELSE IF score >= 7 THEN "high"
    ELSE IF score >= 5 THEN "medium"
    ELSE "low"

\* C3: on every flight and hotel result the stored urgency is the step
\* mapping of the stored deal score.
C3_UrgencyOfStoredScore ==
    \A i \in 1..Len(ScoredItems) :
        ScoredItems[i].urgency = UrgencyStep(ScoredItems[i].deal_score)

\* Well-formed search params: the enum values are members (the model builds
\* no others) and a result cap, where there is one, asks for a result.
WellFormedParams ==
    op = "search_flights" => req.params.max_results >= 1

\* C4: search() of each domain returns a list with at least one result for
\* any well-formed params, whether the provider is unconfigured, raises,
\* returns no records or returns only malformed records.
C4_SearchReturnsResult ==
    (op \in {"search_flights", "search_hotels", "search_restaurants"} /\ WellFormedParams) =>
        ~resp.raised /\ Len(resp.items) >= 1

\* Whether two sequences hold the same elements the same number of times.
SameElements(s, t) ==
    /\ Len(s) = Len(t)
    /\ \A x \in {s[i] : i \in 1..Len(s)} \cup {t[i] : i \in 1..Len(t)} :
         Cardinality({i \in 1..Len(s) : s[i] = x}) = Cardinality({i \in 1..Len(t) : t[i] = x})

C6_Input ==
    LET attempt == HotelProviderResults(req.params, req.outcome)
    IN  IF attempt.results = <<>> THEN Hotel_get_mock_hotels(req.params)
        ELSE attempt.results

\* The name as the claim compares it: lowercased, spaces removed, first 20
\* characters.
C6_Key(hotel) ==
    LET folded == PyRemoveSpaces(PyLower(hotel.name[1]))
    IN  SubSeq(folded, 1, Min2(20, Len(folded)))

\* The keys of the records of a list, in order.
RECURSIVE C6_Keys(_)
C6_Keys(hotels) ==
    IF hotels = <<>> THEN <<>>
    ELSE <<C6_Key(Head(hotels))>> \o C6_Keys(Tail(hotels))

\* Whether record f is the first record with its key.
C6_IsFirst(keys, f) == \A g \in 1..(f-1) : keys[g] # keys[f]

\* Number of first-of-their-name records that the sort (deal score, then
\* rating, both descending, ties in input order) places before record f.
C6_Ahead(input, keys, f) ==
    Cardinality({g \in 1..Len(input) :
        /\ g # f
        /\ C6_IsFirst(keys, g)
        /\ \/ input[g].deal_score > input[f].deal_score
           \/ /\ input[g].deal_score = input[f].deal_score
              /\ input[g].rating > input[f].rating
           \/ /\ input[g].deal_score = input[f].deal_score
              /\ input[g].rating = input[f].rating
              /\ g < f})

\* C6 as stated: of hotel records whose names have the same key exactly one
\* appears in the list search_hotels returns, and it is the first of them in
\* input order.
C6_Original ==
    (op = "search_hotels" /\ ~resp.raised) =>
        LET input == C6_Input
            keys  == C6_Keys(input)
            shown == C6_Keys(resp.items)
        IN  \A f \in 1..Len(input) :
                (C6_IsFirst(keys, f) /\ \E j \in (f+1)..Len(input) : keys[j] = keys[f]) =>
                    /\ Cardinality({k \in 1..Len(shown) : shown[k] = keys[f]}) = 1
                    /\ \A k \in 1..Len(shown) :
                          shown[k] = keys[f] => resp.items[k] = input[f]

\* C6 (amended): of hotel records whose names have the same key at most one
\* appears in the list search_hotels returns; one that appears is the first of
\* them in input order, whatever the deal scores of the later ones; and the
\* first appears exactly when fewer than 10 first-of-their-name records sort
\* before it.
C6_FirstOfNameWithinCap ==
    (op = "search_hotels" /\ ~resp.raised) =>
        LET input == C6_Input
            keys  == C6_Keys(input)
            shown == C6_Keys(resp.items)
        IN  \A f \in 1..Len(input) :
                (C6_IsFirst(keys, f) /\ \E j \in (f+1)..Len(input) : keys[j] = keys[f]) =>
                    /\ Cardinality({k \in 1..Len(shown) : shown[k] = keys[f]}) <= 1
                    /\ \A k \in 1..Len(shown) :
                          shown[k] = keys[f] => resp.items[k] = input[f]
                    /\ (\E k \in 1..Len(shown) : shown[k] = keys[f])
                          <=> (C6_Ahead(input, keys, f) < 10)

\* C6 witness: two spellings of one name, the later with the higher deal
\* score, and the returned list holds the earlier record only.
C6_Witness ==
    /\ op = "search_hotels"
    /\ ~resp.raised
    /\ Len(C6_Input) = 2
    /\ C6_Input[1].name # C6_Input[2].name
    /\ C6_Key(C6_Input[1]) = C6_Key(C6_Input[2])
    /\ C6_Input[2].deal_score > C6_Input[1].deal_score
    /\ resp.items = <<C6_Input[1]>>

\* C6 witness of the cap: the first record of a repeated name is sorted past
\* the tenth place and no record of that name is returned.
C6_WitnessCut ==
    /\ op = "search_hotels"
    /\ ~resp.raised
    /\ Len(resp.items) = 10
    /\ \E i, j \in 1..Len(C6_Input) :
          /\ i < j
          /\ C6_Key(C6_Input[i]) = C6_Key(C6_Input[j])
          /\ \A k \in 1..Len(resp.items) : C6_Key(resp.items[k]) # C6_Key(C6_Input[i])

\* C7: a webhook POST whose X-Hub-Signature-256 header is not
\* "sha256=" + HMAC-SHA256(app secret, raw body) is answered with status 401
\* and nothing of its payload is parsed or dispatched.
C7_BadSignatureUnauthorized ==
    (/\ op = "whatsapp_incoming"
     /\ req.app_secret # ""
     /\ req.signature # None
     /\ req.signature # Some(SignatureOf(req.app_secret, req.body))) =>
        resp.http_status = 401 /\ resp.events = <<>>

\* C8: with an app secret configured the processing loop is reached only for
\* requests whose signature header is the HMAC-SHA256 of the raw body; a
\* request without the header, or with an empty one, is not processed.
C8_ProcessedOnlyIfSigned ==
    (/\ op = "whatsapp_incoming"
     /\ req.app_secret # ""
     /\ resp.status = "received") =>
        req.signature = Some(SignatureOf(req.app_secret, req.body))

\* Whether the search request names an enum value that the domain does not
\* have, in any case of the letters.
C9_UnknownEnum == req.request.enum \in {"Luxury", "Palace", "Thai"}

\* C9: a search request with an unrecognised enum value or a date that does
\* not parse is answered with a client error (4xx), not a server error and
\* not a successful result.
C9_BadInputIsClientError ==
    (op = "http_search" /\ (C9_UnknownEnum \/ req.request.date = None)) =>
        /\ resp.http_status >= 400
        /\ resp.http_status <= 499
        /\ ~resp.success

\* C10: _send_message never raises; without credentials it makes no delivery
\* attempt and returns success, mock and the message as preview; with
\* credentials it returns success only for an HTTP 200 response, and for
\* every other status and every transport exception success false with an
\* error.
C10_SendNeverRaises ==
    op = "send_message" =>
        /\ ~resp.raised
        /\ ~req.is_configured =>
              /\ ~resp.attempted
              /\ resp.success /\ resp.mock
              /\ resp.preview = Some(req.message)
        /\ req.is_configured =>
              /\ resp.success =>
                    req.outcome.kind = "response" /\ req.outcome.status_code = 200
              /\ (req.outcome.kind # "response" \/ req.outcome.status_code # 200) =>
                    ~resp.success /\ resp.error # None

\* C10 witness: with credentials, the API answered 201 and the call returned
\* success false with an error.
C10_Witness ==
    /\ op = "send_message"
    /\ req.is_configured
    /\ req.outcome.kind = "response"
    /\ req.outcome.status_code = 201
    /\ ~resp.raised
    /\ ~resp.success
    /\ resp.error # None

\* C11: the card and list formatters never fail for a partially populated
\* result: whichever keys of the result mapping are missing or None,
\* send_flight_card, send_hotel_card, send_restaurant_card and
\* send_travel_list return a message result instead of raising.
C11_FormatterNeverRaises ==
    op \in {"send_card", "send_list"} =>
        /\ ~resp.raised
        /\ resp.result # <<>>

\* The buttons of the card just built, when one was built.
CardButtons == IF op = "send_card" /\ ~resp.raised THEN resp.message.buttons ELSE <<>>

\* C12: every card message carries at most 3 action buttons, and every button
\* id has the form {action}_{domain}_{resultId} with the domain one of flight,
\* hotel, restaurant.
C12_ButtonIdForm ==
    /\ Len(CardButtons) <= 3
    /\ \A i \in 1..Len(CardButtons) :
          /\ Len(CardButtons[i]) = 3
          /\ CardButtons[i][2] \in {"flight_", "hotel_", "restaurant_"}

\* The click that comes back through the webhook for a button id.
ButtonClick(button_id) ==
    [type |-> "interactive", from |-> "15550001", button_id |-> button_id]

\* C13: every button id the formatter emits on a card is matched by one of
\* the prefixes the webhook receiver dispatches on, so its click reaches an
\* action branch.
C13_ButtonReachesBranch ==
    \A i \in 1..Len(CardButtons) :
        MessageEvent(ButtonClick(CardButtons[i])) \in
            {<<"button", "booking">>, <<"button", "details">>, <<"button", "cart">>}

\* C14: send_travel_list renders at most 10 rows for any item list and item
\* type, and every row title is at most 24 characters long.
C14_ListRowsBounded ==
    (op = "send_list" /\ ~resp.raised) =>
        /\ Len(resp.message.rows) <= 10
        /\ \A i \in 1..Len(resp.message.rows) : Len(resp.message.rows[i].title) <= 24

\* The widget-data operations.
WidgetOps == {"flight_widget_data", "hotel_widget_data", "restaurant_widget_data"}

\* C15: the payload of get_widget_data of every domain has a non-null top
\* item (topDeal, featuredHotel, featuredRestaurant), for every max count and
\* also when every search of the fan-out fails or returns nothing.
C15_TopItemNotNull ==
    op \in WidgetOps =>
        /\ ~resp.raised
        /\ resp.topItem # None

\* C15 witness: every hotel search the widget ran raised, and the payload
\* features the hand-built hotel.
C15_Witness ==
    /\ op = "hotel_widget_data"
    /\ req.max_count = 3
    /\ \A i \in 1..5 : req.outcomes[i].kind = "ok" /\ req.outcomes[i].data[1].kind = "null_name"
    /\ resp.hero
    /\ resp.topItem = Some(Hotel_to_widget_format(Hotel_create_mock_hotel))
    /\ Len(resp.allItems) = 1

\* C16: the mock generator of each domain never fails and returns at least one
\* result for any parameters, unknown routes and locations included; every
\* mock flight and every mock hotel has deal_score 8 and urgency high, also
\* once a search has sorted and cut the mock results.
C16_MockGeneratorFixedScore ==
    /\ op = "mock_generator" =>
          /\ ~resp.raised
          /\ Len(resp.items) >= 1
          /\ req.domain \in {"flights", "hotels"} =>
                \A i \in 1..Len(resp.items) :
                    resp.items[i].deal_score = 8 /\ resp.items[i].urgency = "high"
    /\ op \in {"search_flights", "search_hotels"} /\ ~resp.raised /\ resp.mocked =>
          \A i \in 1..Len(resp.items) :
              resp.items[i].deal_score = 8 /\ resp.items[i].urgency = "high"

C16_Witness ==
    /\ op = "mock_generator"
    /\ req.domain = "hotels"
    /\ req.params.location = "Unknownsville"
    /\ Len(resp.items) = 3
    /\ resp.items[1].deal_score = 8

C17_MockDealOfRoute(deal, params) ==
    LET representative == IF <<params.origin, params.destination>> = <<"JFK", "CDG">>
                          THEN 1847 ELSE 2500
    IN  /\ deal.price - representative <= 200
        /\ representative - deal.price <= 200
        /\ deal.stops = 0
        /\ ~deal.is_mistake_fare

\* C17 as stated: with no provider configured, a flight search returns
\* exactly one mock deal, priced within 200 of the representative price of
\* the route (1847 for JFK->CDG, 2500 for a route not in the table), with
\* stops 0 and is_mistake_fare false.
C17_Original ==
    (op = "search_flights" /\ req.outcome.kind = "unconfigured") =>
        /\ ~resp.raised
        /\ Len(resp.items) = 1
        /\ C17_MockDealOfRoute(resp.items[1], req.params)

\* C17, amended: with no provider configured, a flight search with
\* max_results >= 1 returns exactly one mock deal, priced within 200 of the
\* representative price of the route, with stops 0 and is_mistake_fare false;
\* with max_results <= 0 it returns the empty list.
C17_OneMockDealWhenAsked ==
    (op = "search_flights" /\ req.outcome.kind = "unconfigured") =>
        /\ ~resp.raised
        /\ resp.mocked
        /\ IF req.params.max_results >= 1
           THEN /\ Len(resp.items) = 1
                /\ C17_MockDealOfRoute(resp.items[1], req.params)
           ELSE resp.items = <<>>

C17_Witness ==
    /\ op = "search_flights"
    /\ req.outcome.kind = "unconfigured"
    /\ req.params.origin = "AUS"
    /\ req.params.max_results = 1
    /\ req.jitter = -200
    /\ Len(resp.items) = 1
    /\ resp.items[1].price = 2300

C18_SameButPrice(a, b) ==
    /\ Len(a) = Len(b)
    /\ \A i \in 1..Len(a) :
          IF "price" \in DOMAIN a[i]
          THEN [a[i] EXCEPT !.price = 0] = [b[i] EXCEPT !.price = 0]
          ELSE a[i] = b[i]

\* C18: two calls of the mock generator with identical params yield results
\* that are identical in every field except the jittered price: neither
\* original_price, deep_link, expires_at, available_times nor id varies with
\* the random draw or between the calls.
C18_OnlyPriceVaries ==
    op = "mock_generator_twice" => C18_SameButPrice(resp.first, resp.second)

\* C19: within the list returned by one search() call the result identifiers
\* are pairwise distinct, for every provider response, offers that lack an id
\* and hotel offers that share a hotelId under different names included.
C19_IdsPairwiseDistinct ==
    (op \in {"search_flights", "search_hotels", "search_restaurants"} /\ ~resp.raised) =>
        \A i, j \in 1..Len(resp.items) :
            i # j => resp.items[i].id # resp.items[j].id

\* C20: the verification handshake echoes the challenge back whenever
\* hub.mode is subscribe and hub.verify_token equals the shared secret, for
\* any challenge string, and answers 403 in every other case.
C20_HandshakeEchoesOr403 ==
    op = "whatsapp_verify" =>
        IF req.hub_mode = Some("subscribe") /\ req.hub_verify_token = Some(WHATSAPP_VERIFY_TOKEN)
        THEN req.hub_challenge # None =>
                 resp.status = 200 /\ resp.body = req.hub_challenge[1]
        ELSE resp.status = 403

\* C21: for every flight deal that search_flights returns, normalized or
\* mock, is_mistake_fare is true exactly when deal_score >= 9 and expires_at
\* is set exactly when deal_score >= 8.
C21_MistakeFareAndExpiryByScore ==
    (op = "search_flights" /\ ~resp.raised) =>
        \A i \in 1..Len(resp.items) :
            /\ resp.items[i].is_mistake_fare <=> resp.items[i].deal_score >= 9
            /\ resp.items[i].expires_at # None <=> resp.items[i].deal_score >= 8

C21_Witness ==
    /\ op = "search_flights"
    /\ ~resp.raised
    /\ ~resp.mocked
    /\ Len(resp.items) = 2
    /\ resp.items[1].deal_score = 8
    /\ resp.items[1].expires_at # None
    /\ ~resp.items[1].is_mistake_fare
    /\ resp.items[2].deal_score = 7
    /\ resp.items[2].expires_at = None

\* Provider expiry of an issued token.
C22_ProviderExpiry(token) == provider.issued[token[1]]

\* C22: on one provider client, a token request is sent only when no token
\* is cached or the clock is within 60 seconds of, or past, the expiry of
\* the cached token; every other call returns the cached token without a
\* request; and a token is never returned at or after its provider expiry.
C22_RefreshOnlyNearExpiry ==
    /\ last.kind = "request" =>
          \/ last.held[1].access_token = None
          \/ last.at >= C22_ProviderExpiry(last.held[1].access_token) - 60
    /\ last.kind = "cached" => last.token = last.held[1].access_token
    /\ last.kind \in {"cached", "fresh"} => last.at < C22_ProviderExpiry(last.token)

C22_Witness ==
    /\ last.kind = "cached"
    /\ last.at = C22_ProviderExpiry(last.token) - 90
    /\ provider.requests = 1
    /\ \E t \in Tasks : tasks[t].pc = "await_search" /\ tasks[t].token = last.token

\* C23: under cooperative scheduling, two search calls interleaved on one
\* provider client never both have a token refresh under way for the same
\* missing or expired token.
C23_OneRefreshAtATime ==
    \A t1, t2 \in Tasks :
        (t1 # t2 /\ tasks[t1].pc \in {"await_token", "token_in_flight"})
            => tasks[t2].pc \notin {"await_token", "token_in_flight"}

\* Clamp to [lo, hi].
Clamp(x, lo, hi) == IF x < lo THEN lo ELSE IF x > hi THEN hi ELSE x

\* The reference of C24, in halves of a point: the base by the thresholds
\* of the cabin, half a point off per stop, clamped to [1, 10], truncated.
C24_Reference(price, cabin, stops) ==
    LET t == CASE cabin = "ECONOMY"         -> <<400, 600, 900>>
               [] cabin = "PREMIUM_ECONOMY" -> <<800, 1200, 1800>>
               [] cabin = "BUSINESS"        -> <<2000, 3000, 4500>>
               [] cabin = "FIRST"           -> <<4000, 6000, 9000>>
        base == IF price <= t[1] THEN 9 ELSE IF price <= t[2] THEN 7
                ELSE IF price <= t[3] THEN 5 ELSE 3
    IN  Clamp(2 * base - stops, 2, 20) \div 2

\* C24: FlightWidget._calculate_deal_score equals the reference for every
\* price, cabin and stop count, stop counts below zero included.
C24_FlightScoreIsReference ==
    (op = "calculate_deal_score" /\ req.domain = "flights") =>
        resp.score = C24_Reference(req.price, req.cabin, req.stops)

C24_Witness ==
    /\ op = "calculate_deal_score"
    /\ req.domain = "flights"
    /\ req.cabin = "BUSINESS"
    /\ req.price = 2000
    /\ req.stops = -3
    /\ resp.score = 10

\* The reference of C25, in fifths of a point (a tenth of rating is a fifth
\* of a point): the price tier plus (rating - 4.0) * 2 from 4.0 up, clamped
\* to [1, 10], truncated.
C25_Reference(price, rating) ==
    LET tier == IF price <= 300 THEN 9 ELSE IF price <= 500 THEN 7
                ELSE IF price <= 800 THEN 5 ELSE 3
        bonus == IF rating >= 40 THEN rating - 40 ELSE 0
    IN  Clamp(5 * tier + bonus, 5, 50) \div 5

\* C25: HotelWidget._calculate_deal_score equals the reference for every
\* price per night and rating.
C25_HotelScoreIsReference ==
    (op = "calculate_deal_score" /\ req.domain = "hotels") =>
        resp.score = C25_Reference(req.price, req.rating)

C25_Witness ==
    /\ op = "calculate_deal_score"
    /\ req.domain = "hotels"
    /\ req.price = 501
    /\ req.rating = 49
    /\ resp.score = 6

SearchOps == {"search_flights", "search_hotels", "search_restaurants"}

\* The list a search sorts: what the provider gave, normalized (and, for
\* hotels, deduplicated), or else the mock results.
SortInput ==
    CASE op = "search_flights" ->
            LET attempt == FlightProviderDeals(req.params, req.outcome)
            IN  IF attempt.deals = <<>> THEN Flight_get_mock_deals(req.params, req.jitter)
                ELSE attempt.deals
      [] op = "search_hotels" ->
            LET attempt == HotelProviderResults(req.params, req.outcome)
            IN  DedupeByName(IF attempt.results = <<>> THEN Hotel_get_mock_hotels(req.params)
                             ELSE attempt.results, {})
      [] op = "search_restaurants" -> Restaurant_get_mock_restaurants(req.params, req.draws)

\* The sort key of the domain.
DomainKey(item) ==
    CASE op = "search_flights"     -> <<-item.deal_score, item.price>>
      [] op = "search_hotels"      -> <<-item.deal_score, -item.rating>>
      [] op = "search_restaurants" -> <<-item.michelin_stars, -item.rating>>

\* The entries of a list that have the key k, in the order of the list.
WithKey(list, k) ==
    LET HasKey(item) == DomainKey(item) = k
    IN  SelectSeq(list, HasKey)

IsPrefix(s, t) == Len(s) <= Len(t) /\ s = SubSeq(t, 1, Len(s))

C27_TruncatedToMaxResults ==
    (op \in SearchOps /\ ~resp.raised) =>
        LET n   == Len(SortInput)
            cap == IF op = "search_flights" THEN req.params.max_results ELSE 10
        IN  /\ Len(resp.items) = Max2(0, Min2(cap, n))
            /\ Len(resp.items) <= Max2(0, cap)

\* C28: get_widget_data(max_count) of the flight and hotel domains runs at
\* most max_count + 2 searches, starts no search once max_count results are
\* collected (so none at all for max_count <= 0), and returns at most
\* max_count entries in allItems.
C28_FanOutBounded ==
    op \in {"flight_widget_data", "hotel_widget_data"} =>
        /\ resp.searched <= Max2(0, req.max_count + 2)
        /\ req.max_count <= 0 => resp.searched = 0
        /\ Len(resp.allItems) <= Max2(0, req.max_count)

\* A record of a provider batch that is malformed: not an object, a price
\* that is missing or not a number, or an empty itineraries or offers list.
Malformed(record) ==
    record.kind \in {"not_a_dict", "no_price", "bad_price", "no_itineraries", "empty_offers"}

WellFormed(record) == ~Malformed(record)

\* C29: the normalizer never raises; for a provider batch in which some
\* records are malformed, _parse_amadeus_results returns one result for each
\* well-formed record, in input order, and skips each malformed one.
C29_SkipsMalformedOnly ==
    op = "parse_amadeus" =>
        LET good == SelectSeq(req.results, WellFormed)
        IN  /\ ~resp.raised
            /\ Len(resp.items) = Len(good)
            /\ \A i \in 1..Len(good) :
                  resp.items[i] = IF req.domain = "flights"
                                  THEN FlightDealOf(good[i], req.params)
                                  ELSE HotelResultOf(good[i], req.params)

\* C30: in the line-delimited JSON-RPC loop, every well-formed request other
\* than notifications/initialized is answered with exactly one response line
\* carrying the request's id, also when the invoked tool raises, and the
\* loop keeps serving after any failure.
C30_OneResponsePerRequest ==
    op = "mcp_line" =>
        /\ resp.serving
        /\ (req.line.kind = "request" /\ req.line.request.method # "notifications/initialized") =>
              /\ Len(resp.printed) = 1
              /\ resp.printed[1].id = req.line.request.id
====
